---- MODULE Spec2Model ----
(***************************************************************************)
(* Code Connoisseur: chunk extractor (codeParser.js, tsParser.js,          *)
(* pythonParser.js), embedding pipeline and local vector store             *)
(* (vectorStore.js).                                                       *)
(*                                                                         *)
(* The specifications share the variables:                                 *)
(*   SpecExtract   splitCode applied to one file                           *)
(*   SpecEmbed     one embedChunks call, one batch of 100 per step         *)
(*   Spec          storeEmbeddingsLocally / searchCodebaseLocally over a   *)
(*                 modelled file system                                    *)
(*   SpecIndex     the index command: embedChunks, then storeEmbeddings    *)
(*   SpecClean     persist, the clean command, search                      *)
(*   SpecFeedback  FeedbackSystem: recordFeedback / analyzeFeedback        *)
(***************************************************************************)
EXTENDS Integers, Sequences, FiniteSets, TLC

VARIABLES
    ex,     \* splitCode: the call's arguments, parser outcomes and result
    em,     \* embedChunks: chunks, loop index i, embeddedChunks, provider log
    perm,   \* file system: which storage roots accept directory creation/writes
    dirs,   \* file system: the index directories that exist, <<root, indexName>>
    files,  \* file system: file key -> JSON content
    ps,     \* storeEmbeddingsLocally: the call in progress (locals, position)
    sr,     \* searchCodebaseLocally: the last call and what it returned
    clock,  \* new Date(): advances with every persist call
    cl,     \* cli.js clean command: the last run and how it ended
    fb      \* FeedbackSystem: feedbackLogs, the feedback file, last analysis

vars == <<ex, em, perm, dirs, files, ps, sr, clock, cl, fb>>

\* no clean command has run
ClIdle == [pc |-> "idle"]

\* no FeedbackSystem is constructed
FbIdle == [pc |-> "none"]

Min(a, b) == IF a < b THEN a ELSE b
Max(a, b) == IF a > b THEN a ELSE b

(***************************************************************************)
(* Bounds of the model                                                     *)
(***************************************************************************)
MaxShift == 2        \* chunk lists start at pattern offsets 0..MaxShift
MaxResp == 2         \* the provider answers a batch in one of MaxResp ways

(***************************************************************************)
(* Program constants                                                       *)
(***************************************************************************)
EmbedBatchSize == 100    \* embedChunks: const batchSize = 100
CodeLimit == 5000        \* substring(0, 5000)
HashLen == 12            \* .toString('base64').substring(0, 12)

(***************************************************************************)
(* Strings.  Buffer.from(s).toString('base64') computed on the bytes of s. *)
(***************************************************************************)
AsciiPunct == "-./0123456789"
AsciiUpper == "ABCDEFGHIJKLMNOPQRSTUVWXYZ"
AsciiLower == "abcdefghijklmnopqrstuvwxyz"
B64Alphabet == "ABCDEFGHIJKLMNOPQRSTUVWXYZabcdefghijklmnopqrstuvwxyz0123456789+/"

CharAt(s, i) == SubSeq(s, i, i)
IndexIn(s, c) == IF \E i \in 1..Len(s) : CharAt(s, i) = c
                 THEN CHOOSE i \in 1..Len(s) : CharAt(s, i) = c
                 ELSE 0
\* the byte of a character of a path or an identifier: '-' is 45, 'A' is 65,
\* '_' is 95, 'a' is 97
ByteOf(c) == IF IndexIn(AsciiPunct, c) > 0 THEN 44 + IndexIn(AsciiPunct, c)
             ELSE IF IndexIn(AsciiUpper, c) > 0 THEN 64 + IndexIn(AsciiUpper, c)
             ELSE IF IndexIn(AsciiLower, c) > 0 THEN 96 + IndexIn(AsciiLower, c)
             ELSE 95
Bytes(s) == [i \in 1..Len(s) |-> ByteOf(CharAt(s, i))]
B64Char(v) == CharAt(B64Alphabet, v + 1)

\* one 3-byte group (g = 0, 1, ...) of the base64 text of byte sequence b
B64Group(b, g) ==
    LET n  == Len(b) - 3 * g
        b1 == b[3 * g + 1]
        b2 == IF n >= 2 THEN b[3 * g + 2] ELSE 0
        b3 == IF n >= 3 THEN b[3 * g + 3] ELSE 0
    IN  IF n <= 0 THEN ""
        ELSE B64Char(b1 \div 4)
             \o B64Char((b1 % 4) * 16 + (b2 \div 16))
             \o (IF n >= 2 THEN B64Char((b2 % 16) * 4 + (b3 \div 64)) ELSE "=")
             \o (IF n >= 3 THEN B64Char(b3 % 64) ELSE "=")

\* the first HashLen characters of the base64 text: three groups suffice
Base64Prefix(s) ==
    LET b == Bytes(s)
        t == B64Group(b, 0) \o B64Group(b, 1) \o B64Group(b, 2)
    IN  SubSeq(t, 1, Min(Len(t), HashLen))

(***************************************************************************)
(* Input chunks.  A chunk list of length n is cut from a fixed pattern:    *)
(* paths, names and code repeat with different periods, so that the same   *)
(* (path, name) pair recurs, also at distance 100 and 500.                 *)
(***************************************************************************)
Paths == << "/app/src/cart.js", "/app/src/user.ts", "/x.py" >>
ChunkNames == << "anonymous", "Cart" >>
ChunkTypes == << "FunctionDeclaration", "ClassDeclaration", "File" >>
CodeLens == << 12, 5000, 40, 7 >>

Pick(seq, k) == seq[(k % Len(seq)) + 1]

\* A string cut from a source text is the text's name and the range cut:
\* characters lo..hi-1 of src.  StrLen is its .length.
Str(src, lo, hi) == [src |-> src, lo |-> lo, hi |-> hi]
StrLen(s) == s.hi - s.lo
Clamp(v, n) == Max(0, Min(v, n))

\* s.substring(a, b): both ends clamped to 0..length, swapped when a > b
Substring(s, a, b) ==
    LET ca == Clamp(a, StrLen(s))
        cb == Clamp(b, StrLen(s))
    IN  Str(s.src, s.lo + Min(ca, cb), s.lo + Max(ca, cb))

\* code.substring(0, Math.min(code.length, 5000))
Truncate(s) == Substring(s, 0, Min(StrLen(s), CodeLimit))

ChunkAt(k) ==
    [path |-> Pick(Paths, k), type |-> Pick(ChunkTypes, k \div 2),
     name |-> Pick(ChunkNames, k),
     code |-> Str(Pick(Paths, k), k, k + Pick(CodeLens, k))]

MakeChunks(n, shift) == [k \in 1..n |-> ChunkAt(k - 1 + shift)]

(***************************************************************************)
(* Source files.  A file path is a string.  A content is either not a      *)
(* string (null, a number) or a string, kept as its lines (joined by one   *)
(* newline each); a line is its indentation and what stands on it:         *)
(*   blank       only the indentation                                      *)
(*   code        a statement of fill characters, no brace, no semicolon    *)
(*   jsdecl      <word> <name> {      word: class function interface enum  *)
(*               (function <name>() {)                                      *)
(*   simple      <word> <name> = 1    word: const let var                  *)
(*   simpleSemi  <word> <name> = 1;                                        *)
(*   export      export default function () {                              *)
(*   close       }                                                         *)
(*   pyclass     class <name>:                                             *)
(*   pydef       def <name>():                                             *)
(*   decorator   @<name>                                                   *)
(*   comment     # and fill characters                                     *)
(*   ctrl        one character: NUL (word nul), BEL (bel) or U+FFFF (ffff) *)
(*   bad         )( , which no parser accepts                              *)
(***************************************************************************)
RegexChunkLimit == 10000   \* tsParser.js: endPos - startPos < 10000
JsSizeLimit == 100000      \* codeParser.js: content.length > 100000
TsSizeLimit == 500000      \* tsParser.js: content.length > 500000
PySizeLimit == 500000      \* pythonParser.js: content.length > 500000
BinaryWindow == 1000       \* tsParser.js: content.substring(0, 1000)

FilePaths == << "/app/src/cart.js", "/app/src/user.ts", "/x.py", "/app/View.TSX",
                "/app/README.md", "/app/Makefile", "/app/lib.mjs" >>

\* s.lastIndexOf(c) + 1: 0 when c does not occur in s
LastIndexOf(s, c) ==
    IF \E i \in 1..Len(s) : CharAt(s, i) = c
    THEN CHOOSE i \in 1..Len(s) :
             CharAt(s, i) = c /\ \A j \in (i + 1)..Len(s) : CharAt(s, j) # c
    ELSE 0

\* path.basename(filePath)
basename(filePath) == SubSeq(filePath, LastIndexOf(filePath, "/") + 1, Len(filePath))

RECURSIVE toLowerCase(_)
toLowerCase(s) ==
    IF Len(s) = 0 THEN ""
    ELSE (IF IndexIn(AsciiUpper, CharAt(s, 1)) > 0
          THEN CharAt(AsciiLower, IndexIn(AsciiUpper, CharAt(s, 1)))
          ELSE CharAt(s, 1)) \o toLowerCase(SubSeq(s, 2, Len(s)))

\* path.extname(filePath): from the last dot of the base name, when that dot
\* is not its first character
extname(filePath) ==
    LET base == basename(filePath)
        dot  == LastIndexOf(base, ".")
    IN  IF dot <= 1 THEN "" ELSE SubSeq(base, dot, Len(base))

\* word.charAt(0).toUpperCase() + word.slice(1)
Capitalize(word) ==
    IF Len(word) = 0 THEN ""
    ELSE (IF IndexIn(AsciiLower, CharAt(word, 1)) > 0
          THEN CharAt(AsciiUpper, IndexIn(AsciiLower, CharAt(word, 1)))
          ELSE CharAt(word, 1)) \o SubSeq(word, 2, Len(word))

Ln(kind, indent, word, name, fill) ==
    [kind |-> kind, indent |-> indent, word |-> word, name |-> name, fill |-> fill]

\* the length of a line, its indentation included, the newline not
LineLen(l) ==
    l.indent +
    CASE l.kind = "blank"      -> 0
      [] l.kind = "code"       -> l.fill
      [] l.kind = "jsdecl"     -> Len(l.word) + 1 + Len(l.name) + 2
                                  + (IF l.word = "function" THEN 2 ELSE 0)
      [] l.kind = "simple"     -> Len(l.word) + 1 + Len(l.name) + 4
      [] l.kind = "simpleSemi" -> Len(l.word) + 1 + Len(l.name) + 5
      [] l.kind = "export"     -> 28
      [] l.kind = "close"      -> 1
      [] l.kind = "pyclass"    -> Len(l.word) + 1 + Len(l.name) + 1
      [] l.kind = "pydef"      -> Len(l.word) + 1 + Len(l.name) + 3
      [] l.kind = "decorator"  -> 1 + Len(l.name)
      [] l.kind = "comment"    -> 1 + l.fill
      [] l.kind = "ctrl"       -> 1
      [] OTHER                 -> 2

\* the offset of the first character of line k, and the offset after its last
RECURSIVE LineStart(_, _)
LineStart(lines, k) ==
    IF k = 1 THEN 0 ELSE LineStart(lines, k - 1) + LineLen(lines[k - 1]) + 1
LineEnd(lines, k) == LineStart(lines, k) + LineLen(lines[k])
\* the offset of the first character after the indentation of line k
TextStart(lines, k) == LineStart(lines, k) + lines[k].indent

IsString(content) == content.type = "string"
\* content.length
Length(content) ==
    IF content.lines = <<>> THEN 0 ELSE LineEnd(content.lines, Len(content.lines))
\* the content as a string cut from the file
Text(content, filePath) == Str(filePath, 0, Length(content))

\* fill lengths around the limits of the code
FillLens == {10, CodeLimit - 10, CodeLimit + 1000, RegexChunkLimit + 2000,
             JsSizeLimit + 1, TsSizeLimit + 1}

\* the files of the model, each with one statement of n characters
Shapes(n) ==
    << << Ln("jsdecl", 0, "class", "Cart", 0), Ln("code", 2, "", "", n),
          Ln("close", 0, "", "", 0) >>,
       << Ln("jsdecl", 0, "class", "Cart", 0), Ln("code", 2, "", "", n) >>,
       << Ln("simpleSemi", 0, "const", "limit", 0),
          Ln("jsdecl", 0, "function", "total", 0), Ln("code", 2, "", "", n),
          Ln("close", 0, "", "", 0) >>,
       << Ln("simple", 0, "const", "limit", 0), Ln("code", 0, "", "", n) >>,
       << Ln("simple", 0, "const", "limit", 0), Ln("code", 0, "", "", n),
          Ln("bad", 0, "", "", 0) >>,
       << Ln("code", 0, "", "", n) >>,
       << Ln("jsdecl", 0, "class", "Cart", 0), Ln("code", 2, "", "", n),
          Ln("close", 0, "", "", 0), Ln("bad", 0, "", "", 0) >>,
       << Ln("blank", 0, "", "", 0), Ln("pyclass", 0, "class", "Cart", 0),
          Ln("pydef", 4, "def", "total", 0), Ln("code", 8, "", "", n),
          Ln("code", 0, "", "", 10) >>,
       << Ln("decorator", 0, "", "cached", 0), Ln("pydef", 0, "def", "total", 0),
          Ln("code", 4, "", "", n) >>,
       << Ln("ctrl", 0, "nul", "", 0), Ln("jsdecl", 0, "class", "Cart", 0),
          Ln("code", 2, "", "", n), Ln("close", 0, "", "", 0) >>,
       << Ln("jsdecl", 0, "class", "Cart", 0), Ln("code", 2, "", "", n),
          Ln("close", 0, "", "", 0), Ln("ctrl", 0, "bel", "", 0) >>,
       << Ln("jsdecl", 0, "interface", "Item", 0), Ln("code", 2, "", "", n),
          Ln("close", 0, "", "", 0), Ln("jsdecl", 0, "enum", "Kind", 0),
          Ln("code", 2, "", "", 10), Ln("close", 0, "", "", 0) >>,
       << Ln("jsdecl", 0, "class", "Cart", 0), Ln("jsdecl", 2, "function", "total", 0),
          Ln("code", 4, "", "", n), Ln("close", 2, "", "", 0),
          Ln("close", 0, "", "", 0) >>,
       << Ln("ctrl", 0, "ffff", "", 0), Ln("code", 0, "", "", n) >>,
       << Ln("blank", 3, "", "", 0) >>,
       << Ln("jsdecl", 0, "class", "Cart", 0), Ln("code", 2, "", "", n),
          Ln("close", 0, "", "", 0), Ln("export", 0, "default", "", 0),
          Ln("code", 2, "", "", 10), Ln("close", 0, "", "", 0) >>,
       << Ln("ctrl", 0, "nul", "", 0), Ln("pydef", 0, "def", "total", 0),
          Ln("code", 4, "", "", n) >> >>

InvalidContents == {[type |-> "object", lines |-> <<>>], [type |-> "number", lines |-> <<>>],
               [type |-> "string", lines |-> <<>>]}
Contents ==
    InvalidContents \cup
    {[type |-> "string", lines |-> Shapes(n)[s]] : n \in FillLens, s \in 1..Len(Shapes(0))}

(***************************************************************************)
(* What the parsers and patterns see in a content                          *)
(***************************************************************************)
Kinds(lines) == {lines[k].kind : k \in 1..Len(lines)}

\* content.includes('\u0000') || /[\x00-\x08\x0B\x0C\x0E-\x1F]/.test(first 1000)
HasControlChars(lines) ==
    \E k \in 1..Len(lines) :
        /\ lines[k].kind = "ctrl"
        /\ \/ lines[k].word = "nul"
           \/ lines[k].word = "bel" /\ TextStart(lines, k) < BinaryWindow

\* content.includes(U+FFFF)
HasFFFF(lines) == \E k \in 1..Len(lines) : lines[k].kind = "ctrl" /\ lines[k].word = "ffff"

\* the brace depth after line k (0 before the first line)
RECURSIVE Depth(_, _)
Depth(lines, k) ==
    IF k = 0 THEN 0
    ELSE Depth(lines, k - 1) + (IF lines[k].kind \in {"jsdecl", "export"} THEN 1
                                ELSE IF lines[k].kind = "close" THEN -1 ELSE 0)

\* what makes esprima (both source types) and typescript-estree (both
\* attempts of parseTypeScript) throw: text that is no JavaScript or
\* TypeScript, unbalanced braces, and for esprima the TypeScript declarations
SyntaxError(lines, parser) ==
    \/ Kinds(lines) \cap {"bad", "comment", "pyclass", "pydef", "decorator", "ctrl"} # {}
    \/ \E k \in 1..Len(lines) : Depth(lines, k) < 0
    \/ Depth(lines, Len(lines)) # 0
    \/ /\ parser = "esprima"
       /\ \E k \in 1..Len(lines) :
              lines[k].kind = "jsdecl" /\ lines[k].word \in {"interface", "enum"}

\* the line of the brace that closes the block opened on line k
MatchingClose(lines, k) ==
    CHOOSE m \in (k + 1)..Len(lines) :
        /\ Depth(lines, m) = Depth(lines, k) - 1
        /\ \A j \in (k + 1)..(m - 1) : Depth(lines, j) >= Depth(lines, k)

\* node.type as the parsers name it
NodeType(l) ==
    CASE l.kind = "jsdecl" /\ l.word = "class"     -> "ClassDeclaration"
      [] l.kind = "jsdecl" /\ l.word = "function"  -> "FunctionDeclaration"
      [] l.kind = "jsdecl" /\ l.word = "interface" -> "TSInterfaceDeclaration"
      [] l.kind = "jsdecl" /\ l.word = "enum"      -> "TSEnumDeclaration"
      [] l.kind \in {"simple", "simpleSemi"}       -> "VariableDeclaration"
      [] l.kind = "export"                         -> "ExportDefaultDeclaration"
      [] OTHER                                     -> "ExpressionStatement"

\* ast.body of a content without syntax error: one node per top-level
\* statement, with its range
Body(lines) ==
    LET top == {k \in 1..Len(lines) :
                    /\ Depth(lines, k - 1) = 0
                    /\ lines[k].kind \in {"jsdecl", "export", "simple", "simpleSemi",
                                         "code"}}
        node(k) == [type  |-> NodeType(lines[k]),
                    name  |-> lines[k].name,
                    range |-> << TextStart(lines, k),
                                 IF lines[k].kind \in {"jsdecl", "export"}
                                 THEN TextStart(lines, MatchingClose(lines, k)) + 1
                                 ELSE LineEnd(lines, k) >>]
        Top(k) == k \in top
    IN  [i \in 1..Cardinality(top) |->
            node(SelectSeq([k \in 1..Len(lines) |-> k], Top)[i])]

\* esprima.parseModule / parseScript, parseTypeScript: the AST, or an error
Parse(content, parser) ==
    IF SyntaxError(content.lines, parser) THEN [threw |-> TRUE, body |-> <<>>]
    ELSE [threw |-> FALSE, body |-> Body(content.lines)]

(***************************************************************************)
(* Chunks                                                                  *)
(***************************************************************************)
Chunk(type, name, code, filePath) ==
    [type |-> type, name |-> name, code |-> code, path |-> filePath]

\* [{type: 'File', name: fileName, code: content.substring(0, min(length, 5000))}]
WholeFile(content, filePath) ==
    << Chunk("File", basename(filePath),
             Substring(Text(content, filePath), 0, Min(Length(content), CodeLimit)),
             filePath) >>

\* if (chunks.length === 0) return [the whole file]; return chunks
OrWholeFileMissing(chunks, stage, content, filePath) ==
    [stage |-> stage, chunks |-> chunks]
OrWholeFile(chunks, stage, content, filePath) ==
    IF Len(chunks) = 0
    THEN [stage |-> "file", chunks |-> WholeFile(content, filePath)]
    ELSE [stage |-> stage, chunks |-> chunks]

\* node.range is a pair inside the content
hasValidRange(node, content) ==
    /\ node.range[1] >= 0
    /\ node.range[2] > node.range[1]
    /\ node.range[2] <= Length(content)

\* the loop over ast.body: the nodes of the given types with a valid range
NodeChunks(body, types, content, filePath) ==
    LET Wanted(node) == hasValidRange(node, content) /\ node.type \in types
        nodes == SelectSeq(body, Wanted)
    IN  [i \in 1..Len(nodes) |->
            Chunk(nodes[i].type,
                  IF nodes[i].name # "" THEN nodes[i].name ELSE "anonymous",
                  Truncate(Substring(Text(content, filePath),
                                     nodes[i].range[1], nodes[i].range[2])),
                  filePath)]

(***************************************************************************)
(* tsParser.js                                                             *)
(***************************************************************************)
TsNodeTypes == {"ClassDeclaration", "FunctionDeclaration", "InterfaceDeclaration",
                "TypeAliasDeclaration", "EnumDeclaration", "ExportNamedDeclaration",
                "ExportDefaultDeclaration"}

\* extractChunks(ast, content, filePath)
extractChunks(body, content, filePath) ==
    OrWholeFile(NodeChunks(body, TsNodeTypes, content, filePath), "ast",
                content, filePath)

\* the lines declarationRegex matches on, in order: <word> <name> with word
\* one of class interface type enum function const let var
DeclarationMatches(lines) ==
    LET Matches(k) == lines[k].kind \in {"jsdecl", "simple", "simpleSemi", "pyclass"}
    IN  SelectSeq([k \in 1..Len(lines) |-> k], Matches)

\* the scan for the matching brace from line k on: endPos, content.length
\* when depth never returns to 0
RECURSIVE BraceScan(_, _, _)
BraceScan(lines, k, depth) ==
    IF k > Len(lines) THEN LineEnd(lines, Len(lines))
    ELSE IF lines[k].kind \in {"jsdecl", "export"}
         THEN BraceScan(lines, k + 1, depth + 1)
    ELSE IF lines[k].kind = "close"
         THEN IF depth - 1 = 0 THEN TextStart(lines, k) + 1
              ELSE BraceScan(lines, k + 1, depth - 1)
    ELSE BraceScan(lines, k + 1, depth)

\* content.indexOf(';', startPos) + 1, content.length when there is none
SemicolonScan(lines, k) ==
    IF \E m \in k..Len(lines) : lines[m].kind = "simpleSemi"
    THEN LineEnd(lines, CHOOSE m \in k..Len(lines) :
                            /\ lines[m].kind = "simpleSemi"
                            /\ \A j \in k..(m - 1) : lines[j].kind # "simpleSemi")
    ELSE LineEnd(lines, Len(lines))

DeclarationEnd(lines, k) ==
    IF lines[k].word \in {"class", "interface", "function", "enum"}
    THEN BraceScan(lines, k, 0)
    ELSE SemicolonScan(lines, k)

\* the regex fallback: one chunk per match whose extent is below 10000
RegexChunks(content, filePath) ==
    LET lines   == content.lines
        matches == DeclarationMatches(lines)
        Small(k) == DeclarationEnd(lines, k) - TextStart(lines, k) < RegexChunkLimit
        kept    == SelectSeq(matches, Small)
    IN  [i \in 1..Len(kept) |->
            Chunk(Capitalize(lines[kept[i]].word) \o "Declaration",
                  lines[kept[i]].name,
                  Substring(Text(content, filePath), TextStart(lines, kept[i]),
                            DeclarationEnd(lines, kept[i])),
                  filePath)]

\* processTypeScriptFile(content, filePath), content a non-empty string
processTypeScriptFile(content, filePath) ==
    IF Length(content) > TsSizeLimit
    THEN [stage |-> "large",
          chunks |-> << Chunk("File", basename(filePath),
                              Substring(Text(content, filePath), 0, CodeLimit),
                              filePath) >>]
    ELSE IF HasControlChars(content.lines)
    THEN [stage |-> "binary",
          chunks |-> << Chunk("File", basename(filePath),
                              Substring(Text(content, filePath), 0, CodeLimit),
                              filePath) >>]
    ELSE IF ~Parse(content, "typescript-estree").threw
    THEN extractChunks(Parse(content, "typescript-estree").body, content, filePath)
    ELSE OrWholeFile(RegexChunks(content, filePath), "regex", content, filePath)

(***************************************************************************)
(* pythonParser.js                                                         *)
(***************************************************************************)
\* lines[i].search(/\S/)
IndentOf(l) == IF l.kind = "blank" THEN -1 ELSE l.indent

\* the for loop of extractAndAddChunk from line i on: endLine
RECURSIVE BlockEnd(_, _, _, _)
BlockEnd(lines, i, endLine, firstLineIndent) ==
    IF i > Len(lines) THEN endLine
    ELSE IF lines[i].kind \in {"blank", "comment"}
    THEN BlockEnd(lines, i + 1, i, firstLineIndent)
    ELSE IF IndentOf(lines[i]) <= firstLineIndent /\ lines[i].kind # "decorator"
    THEN endLine
    ELSE BlockEnd(lines, i + 1, i, firstLineIndent)

\* extractAndAddChunk(match, type, name, startPos), startPos on line first:
\* at its start (fromText FALSE) or after its indentation (fromText TRUE)
PythonChunk(content, filePath, type, name, first, fromText) ==
    LET lines == content.lines
        firstLineIndent == IF fromText THEN 0 ELSE IndentOf(lines[first])
        endLine == BlockEnd(lines, first + 1, first, firstLineIndent)
        startPos == IF fromText THEN TextStart(lines, first) ELSE LineStart(lines, first)
    IN  Chunk(type, name,
              Truncate(Substring(Text(content, filePath), startPos, LineEnd(lines, endLine))),
              filePath)

\* ^\s* at the head of classRegex and funcRegex: the match starts at the
\* first line of the blank lines that precede the declaration line k
MatchStartLine(lines, k) ==
    CHOOSE first \in 1..k :
        /\ \A j \in first..(k - 1) : lines[j].kind = "blank"
        /\ first > 1 => lines[first - 1].kind # "blank"

\* the matches of classRegex (kind pyclass) and of funcRegex (kind pydef)
HeaderChunks(content, filePath, kind, type) ==
    LET lines == content.lines
        Matches(k) == lines[k].kind = kind
        found == SelectSeq([k \in 1..Len(lines) |-> k], Matches)
    IN  [i \in 1..Len(found) |->
            PythonChunk(content, filePath, type, lines[found[i]].name,
                        MatchStartLine(lines, found[i]), FALSE)]

\* the declaration line a run of decorator lines starting on line d leads to,
\* 0 when the run is not followed by class or def
RECURSIVE DecoratedLine(_, _)
DecoratedLine(lines, d) ==
    IF d > Len(lines) THEN 0
    ELSE IF lines[d].kind \in {"decorator", "blank"} THEN DecoratedLine(lines, d + 1)
    ELSE IF \/ lines[d].kind \in {"pyclass", "pydef"}
            \/ lines[d].kind = "jsdecl" /\ lines[d].word = "class"
    THEN d ELSE 0

\* the matches of decoratorRegex: the first decorator line of each run
DecoratorChunks(content, filePath) ==
    LET lines == content.lines
        Starts(d) ==
            /\ lines[d].kind = "decorator"
            /\ DecoratedLine(lines, d) # 0
            /\ ~\E e \in 1..(d - 1) :
                   /\ lines[e].kind = "decorator"
                   /\ \A j \in e..d : lines[j].kind \in {"decorator", "blank"}
        found == SelectSeq([k \in 1..Len(lines) |-> k], Starts)
    IN  [i \in 1..Len(found) |->
            LET target == lines[DecoratedLine(lines, found[i])]
            IN  PythonChunk(content, filePath,
                            IF target.word = "class" THEN "ClassDeclaration"
                            ELSE "FunctionDeclaration",
                            target.name, found[i], TRUE)]

\* extractPythonChunks(content, filePath)
extractPythonChunks(content, filePath) ==
    OrWholeFile(HeaderChunks(content, filePath, "pyclass", "ClassDeclaration")
                \o HeaderChunks(content, filePath, "pydef", "FunctionDeclaration")
                \o DecoratorChunks(content, filePath),
                "indent", content, filePath)

\* processPythonFile(content, filePath), content a non-empty string
processPythonFileAnySize(content, filePath) ==
    extractPythonChunks(content, filePath)
processPythonFile(content, filePath) ==
    IF Length(content) > PySizeLimit
    THEN [stage |-> "large",
          chunks |-> << Chunk("File", basename(filePath),
                              Substring(Text(content, filePath), 0, CodeLimit),
                              filePath) >>]
    ELSE extractPythonChunks(content, filePath)

(***************************************************************************)
(* codeParser.js: splitCode                                                *)
(***************************************************************************)
JsNodeTypes == {"FunctionDeclaration", "ClassDeclaration"}

\* content is falsy or no string
IsInvalid(content) == ~IsString(content) \/ Length(content) = 0

\* the first return of splitCode: code is content.substring(0, 5000) or ''
splitInvalid(content, filePath) ==
    [stage |-> "invalid",
     chunks |-> << Chunk("File", basename(filePath),
                         IF IsString(content)
                         THEN Substring(Text(content, filePath), 0, CodeLimit)
                         ELSE Str(filePath, 0, 0),
                         filePath) >>]

\* the JavaScript branch: the size and encoding gate, esprima in one source
\* type and then the other, the function and class declarations of ast.body
splitJavaScript(content, filePath) ==
    IF Length(content) > JsSizeLimit \/ HasFFFF(content.lines)
    THEN [stage |-> "large", chunks |-> WholeFile(content, filePath)]
    ELSE IF Parse(content, "esprima").threw
    THEN [stage |-> "file", chunks |-> WholeFile(content, filePath)]
    ELSE OrWholeFile(NodeChunks(Parse(content, "esprima").body, JsNodeTypes,
                                content, filePath),
                     "ast", content, filePath)

\* splitCode(content, filePath)
splitCode(content, filePath) ==
    LET ext == toLowerCase(extname(filePath))
    IN  IF IsInvalid(content) THEN splitInvalid(content, filePath)
        ELSE IF ext \in {".ts", ".tsx"} THEN processTypeScriptFile(content, filePath)
        ELSE IF ext \in {".py"} THEN processPythonFile(content, filePath)
        ELSE IF ext \notin {".js", ".jsx", ".mjs", ".cjs", ".es6"}
        THEN [stage |-> "other", chunks |-> WholeFile(content, filePath)]
        ELSE splitJavaScript(content, filePath)

ExIdle == [pc |-> "idle"]

\* the record of one splitCode call
Returned(content, filePath) ==
    [pc |-> "returned", content |-> content, filePath |-> filePath,
     stage |-> splitCode(content, filePath).stage,
     chunks |-> splitCode(content, filePath).chunks]

\* splitCode on a content that is empty or no string
SplitInvalid(content, filePath) ==
    /\ ex.pc = "idle"
    /\ IsInvalid(content)
    /\ ex' = Returned(content, filePath)
    /\ UNCHANGED <<em, perm, dirs, files, ps, sr, clock, cl, fb>>

\* splitCode on a .ts / .tsx file
SplitTypeScript(content, filePath) ==
    /\ ex.pc = "idle"
    /\ ~IsInvalid(content)
    /\ toLowerCase(extname(filePath)) \in {".ts", ".tsx"}
    /\ ex' = Returned(content, filePath)
    /\ UNCHANGED <<em, perm, dirs, files, ps, sr, clock, cl, fb>>

\* splitCode on a .py file
SplitPython(content, filePath) ==
    /\ ex.pc = "idle"
    /\ ~IsInvalid(content)
    /\ toLowerCase(extname(filePath)) = ".py"
    /\ ex' = Returned(content, filePath)
    /\ UNCHANGED <<em, perm, dirs, files, ps, sr, clock, cl, fb>>

\* splitCode on a JavaScript file
SplitJavaScript(content, filePath) ==
    /\ ex.pc = "idle"
    /\ ~IsInvalid(content)
    /\ toLowerCase(extname(filePath)) \in {".js", ".jsx", ".mjs", ".cjs", ".es6"}
    /\ ex' = Returned(content, filePath)
    /\ UNCHANGED <<em, perm, dirs, files, ps, sr, clock, cl, fb>>

\* splitCode on a file of any other extension
SplitOther(content, filePath) ==
    /\ ex.pc = "idle"
    /\ ~IsInvalid(content)
    /\ toLowerCase(extname(filePath))
           \notin {".ts", ".tsx", ".py", ".js", ".jsx", ".mjs", ".cjs", ".es6"}
    /\ ex' = Returned(content, filePath)
    /\ UNCHANGED <<em, perm, dirs, files, ps, sr, clock, cl, fb>>

InitExtract ==
    /\ ex = ExIdle
    /\ em = [pc |-> "idle", chunks |-> <<>>, i |-> 0, embeddedChunks |-> <<>>,
             provided |-> <<>>]
    /\ perm = [primary |-> TRUE, alt |-> TRUE]
    /\ dirs = {}
    /\ files = <<>>
    /\ ps = [pc |-> "idle", calls |-> 0, faults |-> 0]
    /\ sr = [pc |-> "idle"]
    /\ clock = 0
    /\ cl = ClIdle
    /\ fb = FbIdle

NextExtract ==
    \E content \in Contents, k \in 1..Len(FilePaths) :
        \/ SplitInvalid(content, FilePaths[k])
        \/ SplitTypeScript(content, FilePaths[k])
        \/ SplitPython(content, FilePaths[k])
        \/ SplitJavaScript(content, FilePaths[k])
        \/ SplitOther(content, FilePaths[k])

SpecExtract == InitExtract /\ [][NextExtract]_vars

(***************************************************************************)
(* Claims about splitCode                                                  *)
(***************************************************************************)

\* C1: for every content (empty, no string, oversized, unparseable) and every
\* file path, splitCode returns a list with at least one chunk: it never
\* throws and never returns the empty list.
C1_AtLeastOneChunk ==
    /\ ex.pc \in {"idle", "returned"}
    /\ ex.pc = "returned" => Len(ex.chunks) >= 1

\* a TypeScript file that the parser rejects and in which the declaration
\* pattern finds nothing small enough: the whole file is the one chunk
C1_Witness ==
    /\ ex.pc = "returned"
    /\ toLowerCase(extname(ex.filePath)) = ".ts"
    /\ Parse(ex.content, "typescript-estree").threw
    /\ ~HasControlChars(ex.content.lines)
    /\ DeclarationMatches(ex.content.lines) # <<>>
    /\ RegexChunks(ex.content, ex.filePath) = <<>>
    /\ Len(ex.chunks) = 1
    /\ ex.chunks[1].type = "File"

\* C2: every chunk returned by the extractor has code of at most 5000
\* characters, whichever stage produced it and whichever the language family.
C2_CodeAtMost5000 ==
    ex.pc = "returned" =>
        \A i \in 1..Len(ex.chunks) : StrLen(ex.chunks[i].code) <= CodeLimit

(***************************************************************************)
(* Embedding provider.  embedDocuments(texts) returns one vector per text; *)
(* which vectors is the provider's business (the mock draws them at        *)
(* random), here one of MaxResp answer patterns over Vecs.                 *)
(***************************************************************************)
Vecs == << <<1, 0, 0>>, <<1, 1, 0>>, <<1, 0, 1>>, <<2, 1, 0>>, <<0, 0, 0>>,
           <<0, 1, 0>>, <<-1, 0, 0>> >>

embedDocuments(texts, r) == [j \in 1..Len(texts) |-> Pick(Vecs, j * r + r)]

(***************************************************************************)
(* embedChunks (vectorStore.js)                                            *)
(***************************************************************************)
IdHashOf(path, name) == Base64Prefix(path \o "-" \o name)

\* the hashes of the chunks of the pattern, computed once
IdHashTable ==
    [p \in {Paths[i] : i \in 1..Len(Paths)} |->
        [n \in {ChunkNames[i] : i \in 1..Len(ChunkNames)} |-> IdHashOf(p, n)]]

idHash(chunk) == IdHashTable[chunk.path][chunk.name]

\* `${idHash}-${i + j}`
ChunkIdBatchLocal(chunk, pos) == idHash(chunk) \o "-" \o ToString(pos % EmbedBatchSize)
ChunkId(chunk, pos) == idHash(chunk) \o "-" \o ToString(pos)

\* the object pushed for chunk j of the batch starting at i (0-based i, j)
EmbeddedChunkFirstVector(chunk, i, j, vectors) ==
    [id |-> ChunkId(chunk, i + j), values |-> vectors[1],
     metadata |-> [path |-> chunk.path, type |-> chunk.type, name |-> chunk.name,
                   code |-> Truncate(chunk.code)]]
EmbeddedChunk(chunk, i, j, vectors) ==
    [id |-> ChunkId(chunk, i + j), values |-> vectors[j + 1],
     metadata |-> [path |-> chunk.path, type |-> chunk.type, name |-> chunk.name,
                   code |-> Truncate(chunk.code)]]

\* chunks.slice(i, i + batchSize)
Slice(seq, from, to) == SubSeq(seq, from + 1, Min(to, Len(seq)))

EmbedBatch(chunks, i, vectors) ==
    LET batch == Slice(chunks, i, i + EmbedBatchSize)
    IN  [j \in 1..Len(batch) |-> EmbeddedChunk(batch[j], i, j - 1, vectors)]

SizesE == {0, 1, EmbedBatchSize, EmbedBatchSize + 1, 2 * EmbedBatchSize + 50}

EmIdle == [pc |-> "idle", chunks |-> <<>>, i |-> 0, embeddedChunks |-> <<>>,
           provided |-> <<>>]

\* embedChunks(chunks) is called
EmbedStart(n, shift) ==
    /\ em.pc = "idle"
    /\ em' = [EmIdle EXCEPT !.pc = "loop", !.chunks = MakeChunks(n, shift)]
    /\ UNCHANGED <<ex, perm, dirs, files, ps, sr, clock, cl, fb>>

\* one turn of the for loop: the provider answers the batch (way r), and the
\* batch's chunks are pushed; provided logs what the provider returned
EmbedStep(r) ==
    /\ em.pc = "loop"
    /\ em.i < Len(em.chunks)
    /\ LET texts   == [j \in 1..Len(Slice(em.chunks, em.i, em.i + EmbedBatchSize)) |->
                          Slice(em.chunks, em.i, em.i + EmbedBatchSize)[j].code]
           vectors == embedDocuments(texts, r)
       IN  em' = [em EXCEPT !.embeddedChunks = @ \o EmbedBatch(em.chunks, em.i, vectors),
                            !.provided = @ \o vectors,
                            !.i = @ + EmbedBatchSize]
    /\ UNCHANGED <<ex, perm, dirs, files, ps, sr, clock, cl, fb>>

\* await embeddings.embedDocuments(texts) rejects: the error leaves embedChunks
EmbedProviderFails ==
    /\ em.pc = "loop"
    /\ em.i < Len(em.chunks)
    /\ em' = [em EXCEPT !.pc = "threw", !.embeddedChunks = <<>>]
    /\ UNCHANGED <<ex, perm, dirs, files, ps, sr, clock, cl, fb>>

\* the loop is over: return embeddedChunks
EmbedReturn ==
    /\ em.pc = "loop"
    /\ em.i >= Len(em.chunks)
    /\ em' = [em EXCEPT !.pc = "returned"]
    /\ UNCHANGED <<ex, perm, dirs, files, ps, sr, clock, cl, fb>>

InitEmbed ==
    /\ ex = [pc |-> "idle"]
    /\ em = EmIdle
    /\ perm = [primary |-> TRUE, alt |-> TRUE]
    /\ dirs = {}
    /\ files = <<>>
    /\ ps = [pc |-> "idle", calls |-> 0, faults |-> 0]
    /\ sr = [pc |-> "idle"]
    /\ clock = 0
    /\ cl = ClIdle
    /\ fb = FbIdle

NextEmbed ==
    \/ \E n \in SizesE, shift \in 0..MaxShift : EmbedStart(n, shift)
    \/ \E r \in 1..MaxResp : EmbedStep(r)
    \/ EmbedProviderFails
    \/ EmbedReturn

SpecEmbed == InitEmbed /\ [][NextEmbed]_vars

(***************************************************************************)
(* Claims about embedChunks                                                *)
(***************************************************************************)

\* C3: embedChunks returns a list as long as its input in which element i
\* carries the path, type and name of input chunk i and the vector the
\* provider returned for chunk i, across all provider batches of 100.
C3_EmbedPreservesOrder ==
    em.pc = "returned" =>
        /\ Len(em.embeddedChunks) = Len(em.chunks)
        /\ \A i \in 1..Len(em.chunks) :
              /\ em.embeddedChunks[i].metadata.path = em.chunks[i].path
              /\ em.embeddedChunks[i].metadata.type = em.chunks[i].type
              /\ em.embeddedChunks[i].metadata.name = em.chunks[i].name
              /\ em.embeddedChunks[i].values = em.provided[i]

\* a returned list that spans three provider batches whose answers differ
C3_Witness ==
    /\ em.pc = "returned"
    /\ Len(em.embeddedChunks) > 2 * EmbedBatchSize
    /\ em.provided[1] # em.provided[EmbedBatchSize + 1]
    /\ em.embeddedChunks[EmbedBatchSize + 2].values # em.embeddedChunks[2].values

\* C4: the ids produced by one embedChunks call are pairwise distinct, even
\* when several input chunks share the same (path, name) pair.
C4_IdsDistinct ==
    em.pc = "returned" =>
        \A i, j \in 1..Len(em.embeddedChunks) :
            i # j => em.embeddedChunks[i].id # em.embeddedChunks[j].id

\* two chunks with the same path and name, one provider batch apart
C4_Witness ==
    /\ em.pc = "returned"
    /\ Len(em.chunks) > EmbedBatchSize + 6
    /\ em.chunks[1].path = em.chunks[7].path
    /\ em.chunks[1].name = em.chunks[7].name
    /\ em.chunks[1].path = em.chunks[EmbedBatchSize + 3].path
    /\ em.chunks[1].name = em.chunks[EmbedBatchSize + 3].name
    /\ em.embeddedChunks[1].id # em.embeddedChunks[7].id


(***************************************************************************)
(* Local vector store: the file system                                     *)
(*                                                                         *)
(* An index directory is <<root, indexName>>:                              *)
(*   primary  <cwd>/.code-connoisseur/vectors          (LOCAL_VECTOR_PATH) *)
(*   alt      <cwd>/.code-connoisseur-alt/vectors                          *)
(*   legacy   <HOME>/.code-connoisseur-vectors                             *)
(* A file is <<root, indexName, kind, i>>; the two location files are      *)
(*   <<"metadata", name, "location", 0>>                                   *)
(*       <cwd>/.code-connoisseur/metadata/<name>-location.json             *)
(*   <<"vectors", name, "location", 0>>                                    *)
(*       <cwd>/.code-connoisseur/vectors/<name>-location.json              *)
(***************************************************************************)
BATCH_SIZE == 500        \* storeEmbeddingsLocally: const BATCH_SIZE = 500
Dimension == 1536        \* meta.json: dimension: 1536
ThresholdNum == 1        \* SIMILARITY_THRESHOLD = 0.5 = ThresholdNum / ThresholdDen
ThresholdDen == 2

MaxTopK == 3             \* search is called with topK in 0..MaxTopK
MaxCalls == 2            \* persist calls in one behaviour
MaxFaults == 1           \* write errors in one behaviour
FewChunks == 5           \* the size of a small code base

IndexNames == {"main", "other"}
PersistNames == {"main"}
Sizes == {0, FewChunks, BATCH_SIZE, 2 * BATCH_SIZE + BATCH_SIZE \div 2}
NoDir == <<"null", "null">>

File(dir, kind, i) == <<dir[1], dir[2], kind, i>>
Exists(f) == f \in DOMAIN files
WrittenLocationFile(indexName) == <<"metadata", indexName, "location", 0>>
ReadLocationFile(indexName) == <<"vectors", indexName, "location", 0>>

\* the module never requires 'glob': glob.sync(...) raises a ReferenceError,
\* which the try/catch around each probe swallows
GlobIsDefined == FALSE

\* the chunk list handed to storeEmbeddings by the index command: the result
\* of embedChunks on the chunks of the code base
IndexedChunks(n) ==
    LET vectors == [j \in 1..n |-> Pick(Vecs, j)]
    IN  [k \in 1..n |-> EmbeddedChunk(ChunkAt(k - 1), 0, k - 1, vectors)]

(***************************************************************************)
(* storeEmbeddingsLocally                                                  *)
(***************************************************************************)
PsIdle == [pc |-> "idle", calls |-> 0, faults |-> 0]


\* Math.ceil(n / BATCH_SIZE)
TotalBatchesFloor(n) == n \div BATCH_SIZE
TotalBatches(n) == (n + BATCH_SIZE - 1) \div BATCH_SIZE

\* embeddedChunks.slice(i * BATCH_SIZE, min(i * BATCH_SIZE + BATCH_SIZE, length))
BatchChunks(chunks, i) ==
    Slice(chunks, i * BATCH_SIZE, Min(i * BATCH_SIZE + BATCH_SIZE, Len(chunks)))

\* getPathId over the chunks of a batch, in order: a path not in pathMappings
\* gets `p${pathId++}` the first time it is met
FirstAt(batch, path) ==
    CHOOSE k \in 1..Len(batch) :
        /\ batch[k].metadata.path = path
        /\ \A m \in 1..(k - 1) : batch[m].metadata.path # path
NewPaths(batch, pathMappings) ==
    {batch[k].metadata.path : k \in 1..Len(batch)} \ DOMAIN pathMappings
PathMappingsSameId(batch, pathMappings, pathId) ==
    [p \in NewPaths(batch, pathMappings) |-> "p" \o ToString(pathId)] @@ pathMappings
PathMappingsAfter(batch, pathMappings, pathId) ==
    [p \in NewPaths(batch, pathMappings) |->
        "p" \o ToString(pathId + Cardinality({q \in NewPaths(batch, pathMappings) :
                                                FirstAt(batch, q) < FirstAt(batch, p)}))]
    @@ pathMappings

\* indexMappings[chunkId] = {batch: i, index: idx} for the chunks lo..hi of the
\* batch in order: a later chunk with the same id overwrites an earlier one
RECURSIVE MappingsOf(_, _, _, _, _)
MappingsOf(batch, i, lo, hi, base) ==
    IF lo > hi THEN <<>>
    ELSE IF lo = hi THEN batch[lo].id :> [batch |-> i, index |-> lo - base]
    ELSE MappingsOf(batch, i, (lo + hi) \div 2 + 1, hi, base)
         @@ MappingsOf(batch, i, lo, (lo + hi) \div 2, base)
IndexMappingsOneBased(batch, i, indexMappings) ==
    MappingsOf(batch, i, 1, Len(batch), 0) @@ indexMappings
IndexMappingsAfter(batch, i, indexMappings) ==
    MappingsOf(batch, i, 1, Len(batch), 1) @@ indexMappings

\* batchVectors: {id, values}
BatchVectors(batch) ==
    [k \in 1..Len(batch) |-> [id |-> batch[k].id, values |-> batch[k].values]]

\* batchMetadata: {id, metadata: {p, t, n, c}}
BatchMetadataSwapped(batch, pathMappings) ==
    [k \in 1..Len(batch) |->
        [id |-> batch[k].id,
         metadata |-> [p |-> pathMappings[batch[k].metadata.path],
                       t |-> batch[k].metadata.name,
                       n |-> batch[k].metadata.type,
                       c |-> batch[k].metadata.code]]]
BatchMetadata(batch, pathMappings) ==
    [k \in 1..Len(batch) |->
        [id |-> batch[k].id,
         metadata |-> [p |-> pathMappings[batch[k].metadata.path],
                       t |-> batch[k].metadata.type,
                       n |-> batch[k].metadata.name,
                       c |-> batch[k].metadata.code]]]

\* the content of meta.json
IndexMeta(indexName, chunks, indexDir, now) ==
    [name |-> indexName, dimension |-> Dimension, metric |-> "cosine",
     chunkCount |-> Len(chunks), created |-> now, updated |-> now,
     path |-> indexDir]

Write(f, content) == files' = (f :> content) @@ files

\* storeEmbeddingsLocally(embeddedChunks, indexName) is called
PersistStart(indexName, n) ==
    /\ ps.pc \in {"idle", "returned", "threw"}
    /\ sr.pc = "idle"
    /\ ps.calls < MaxCalls
    /\ ps' = [pc |-> "root", calls |-> ps.calls + 1, faults |-> ps.faults,
              indexName |-> indexName, embeddedChunks |-> IndexedChunks(n),
              indexDir |-> NoDir, i |-> 0,
              pathMappings |-> <<>>, pathId |-> 0, indexMappings |-> <<>>,
              wrote |-> {}, now |-> clock + 1]
    /\ clock' = clock + 1
    /\ UNCHANGED <<ex, em, perm, dirs, files, sr, cl, fb>>

\* ensureDir(LOCAL_VECTOR_PATH), the write test and ensureDir(indexDir) succeed
PersistPrimaryRoot ==
    /\ ps.pc = "root"
    /\ perm.primary
    /\ dirs' = dirs \cup {<<"primary", ps.indexName>>}
    /\ ps' = [ps EXCEPT !.pc = "meta", !.indexDir = <<"primary", ps.indexName>>]
    /\ UNCHANGED <<ex, em, perm, files, sr, clock, cl, fb>>

\* the primary root fails (dirError); the alternate root is created
PersistAlternateRootFirst ==
    /\ ps.pc = "root"
    /\ perm.alt
    /\ dirs' = dirs \cup {<<"alt", ps.indexName>>}
    /\ ps' = [ps EXCEPT !.pc = "meta", !.indexDir = <<"alt", ps.indexName>>]
    /\ UNCHANGED <<ex, em, perm, files, sr, clock, cl, fb>>
PersistAlternateRoot ==
    /\ ps.pc = "root"
    /\ ~perm.primary
    /\ perm.alt
    /\ dirs' = dirs \cup {<<"alt", ps.indexName>>}
    /\ ps' = [ps EXCEPT !.pc = "meta", !.indexDir = <<"alt", ps.indexName>>]
    /\ UNCHANGED <<ex, em, perm, files, sr, clock, cl, fb>>

\* both roots fail: throw dirError
PersistNoRoot ==
    /\ ps.pc = "root"
    /\ ~perm.primary
    /\ ~perm.alt
    /\ ps' = [ps EXCEPT !.pc = "threw"]
    /\ UNCHANGED <<ex, em, perm, dirs, files, sr, clock, cl, fb>>

\* fs.writeJson(indexMetaPath, {...})
PersistWriteIndexMeta ==
    /\ ps.pc = "meta"
    /\ Write(File(ps.indexDir, "meta.json", 0),
             IndexMeta(ps.indexName, ps.embeddedChunks, ps.indexDir, ps.now))
    /\ ps' = [ps EXCEPT !.pc = IF TotalBatches(Len(ps.embeddedChunks)) > 0
                                THEN "vec" ELSE "paths",
                        !.wrote = @ \cup {File(ps.indexDir, "meta.json", 0)}]
    /\ UNCHANGED <<ex, em, perm, dirs, sr, clock, cl, fb>>

\* loop turn i: the forEach over the batch, then fs.writeJson(vectorPath, ...)
PersistWriteVectors ==
    /\ ps.pc = "vec"
    /\ LET batch == BatchChunks(ps.embeddedChunks, ps.i)
       IN  /\ Write(File(ps.indexDir, "vec", ps.i), BatchVectors(batch))
           /\ ps' = [ps EXCEPT
                  !.pc = "metab",
                  !.pathMappings = PathMappingsAfter(batch, ps.pathMappings, ps.pathId),
                  !.pathId = @ + Cardinality(NewPaths(batch, ps.pathMappings)),
                  !.indexMappings = IndexMappingsAfter(batch, ps.i, ps.indexMappings),
                  !.wrote = @ \cup {File(ps.indexDir, "vec", ps.i)}]
    /\ UNCHANGED <<ex, em, perm, dirs, sr, clock, cl, fb>>

\* loop turn i: fs.writeJson(metadataPath, batchMetadata); i++
PersistWriteMetadata ==
    /\ ps.pc = "metab"
    /\ Write(File(ps.indexDir, "meta", ps.i),
             BatchMetadata(BatchChunks(ps.embeddedChunks, ps.i), ps.pathMappings))
    /\ ps' = [ps EXCEPT !.pc = IF ps.i + 1 < TotalBatches(Len(ps.embeddedChunks))
                                THEN "vec" ELSE "paths",
                        !.i = @ + 1,
                        !.wrote = @ \cup {File(ps.indexDir, "meta", ps.i)}]
    /\ UNCHANGED <<ex, em, perm, dirs, sr, clock, cl, fb>>

\* fs.writeJson(pathMappingsPath, pathMappings)
PersistWritePaths ==
    /\ ps.pc = "paths"
    /\ Write(File(ps.indexDir, "paths.json", 0), ps.pathMappings)
    /\ ps' = [ps EXCEPT !.pc = "map",
                        !.wrote = @ \cup {File(ps.indexDir, "paths.json", 0)}]
    /\ UNCHANGED <<ex, em, perm, dirs, sr, clock, cl, fb>>

\* fs.writeJson(mappingsPath, indexMappings)
PersistWriteMap ==
    /\ ps.pc = "map"
    /\ Write(File(ps.indexDir, "map.json", 0), ps.indexMappings)
    /\ ps' = [ps EXCEPT !.pc = "location",
                        !.wrote = @ \cup {File(ps.indexDir, "map.json", 0)}]
    /\ UNCHANGED <<ex, em, perm, dirs, sr, clock, cl, fb>>

\* indexDir starts with LOCAL_VECTOR_PATH: no location file; return
PersistReturnPrimary ==
    /\ ps.pc = "location"
    /\ ps.indexDir[1] = "primary"
    /\ ps' = [ps EXCEPT !.pc = "returned"]
    /\ UNCHANGED <<ex, em, perm, dirs, files, sr, clock, cl, fb>>

\* alternate root: <cwd>/.code-connoisseur/metadata/<name>-location.json
PersistWriteLocation ==
    /\ ps.pc = "location"
    /\ ps.indexDir[1] # "primary"
    /\ Write(WrittenLocationFile(ps.indexName),
             [alternate_path |-> ps.indexDir, created |-> ps.now])
    /\ ps' = [ps EXCEPT !.pc = "returned",
                        !.wrote = @ \cup {WrittenLocationFile(ps.indexName)}]
    /\ UNCHANGED <<ex, em, perm, dirs, sr, clock, cl, fb>>

\* alternate root, and writing the location file fails: the error is ignored
PersistLocationIgnored ==
    /\ ps.pc = "location"
    /\ ps.indexDir[1] # "primary"
    /\ ps' = [ps EXCEPT !.pc = "returned"]
    /\ UNCHANGED <<ex, em, perm, dirs, files, sr, clock, cl, fb>>

\* a writeJson of the call rejects (disk full, permissions): the error leaves
\* storeEmbeddingsLocally, what was written stays
PersistWriteFails ==
    /\ ps.pc \in {"meta", "vec", "metab", "paths", "map"}
    /\ ps.faults < MaxFaults
    /\ ps' = [ps EXCEPT !.pc = "threw", !.faults = @ + 1]
    /\ UNCHANGED <<ex, em, perm, dirs, files, sr, clock, cl, fb>>

\* the environment: the primary root stops accepting writes
PrimaryBecomesReadOnly ==
    /\ ps.pc = "returned"
    /\ sr.pc = "idle"
    /\ perm.primary
    /\ perm' = [perm EXCEPT !.primary = FALSE]
    /\ UNCHANGED <<ex, em, dirs, files, ps, sr, clock, cl, fb>>


(***************************************************************************)
(* getStorageLocation                                                      *)
(***************************************************************************)
\* the for loop over alternateLocations: glob.sync(altPattern), then the first
\* match that holds meta.json
GlobProbe(indexName) ==
    LET candidates == << <<"primary", indexName>>, <<"alt", indexName>>,
                         <<"legacy", indexName>> >>
        hits == {k \in 1..Len(candidates) :
                    /\ GlobIsDefined
                    /\ candidates[k] \in dirs
                    /\ Exists(File(candidates[k], "meta.json", 0))}
    IN  IF hits = {} THEN NoDir
        ELSE candidates[CHOOSE k \in hits : \A m \in hits : k <= m]

getStorageLocation(indexName) ==
    IF <<"primary", indexName>> \in dirs
    THEN <<"primary", indexName>>
    ELSE IF /\ Exists(ReadLocationFile(indexName))
            /\ files[ReadLocationFile(indexName)].alternate_path \in dirs
    THEN files[ReadLocationFile(indexName)].alternate_path
    ELSE IF <<"legacy", indexName>> \in dirs
    THEN <<"legacy", indexName>>
    ELSE GlobProbe(indexName)

(***************************************************************************)
(* calculateCosineSimilarity.  A similarity is kept exact as sgn * sqrt(p/q)*)
(* with p/q in lowest terms, so that equal similarities are equal values.  *)
(***************************************************************************)
RECURSIVE Gcd(_, _)
Gcd(a, b) == IF b = 0 THEN a ELSE Gcd(b, a % b)

RECURSIVE DotFrom(_, _, _)
DotFrom(a, b, i) == IF i > Len(a) THEN 0 ELSE a[i] * b[i] + DotFrom(a, b, i + 1)
Dot(a, b) == DotFrom(a, b, 1)

Zero == [sgn |-> 0, p |-> 0, q |-> 1]
NaN == [sgn |-> 0, p |-> 0, q |-> 0]

\* dotProduct / (Math.sqrt(normA) * Math.sqrt(normB)); 0 / 0 is NaN
Quotient(dotProduct, normA, normB) ==
    LET g == Gcd(dotProduct * dotProduct, normA * normB)
    IN  IF normA * normB = 0 THEN NaN
        ELSE IF dotProduct = 0 THEN Zero
        ELSE [sgn |-> IF dotProduct > 0 THEN 1 ELSE -1,
              p |-> (dotProduct * dotProduct) \div g,
              q |-> (normA * normB) \div g]

calculateCosineSimilarityUnguarded(vecA, vecB) ==
    Quotient(Dot(vecA, vecB), Dot(vecA, vecA), Dot(vecB, vecB))
calculateCosineSimilarity(vecA, vecB) ==
    LET dotProduct == Dot(vecA, vecB)
        normA == Dot(vecA, vecA)
        normB == Dot(vecB, vecB)
    IN  IF normA = 0 \/ normB = 0 THEN Zero
        ELSE Quotient(dotProduct, normA, normB)

\* a > b on similarities
Greater(a, b) ==
    IF a.sgn # b.sgn THEN a.sgn > b.sgn
    ELSE IF a.sgn = 1 THEN a.p * b.q > b.p * a.q
    ELSE IF a.sgn = -1 THEN a.p * b.q < b.p * a.q
    ELSE FALSE

\* similarity > SIMILARITY_THRESHOLD
AboveThresholdOrEqual(sim) ==
    sim.sgn = 1 /\ sim.p * ThresholdDen * ThresholdDen >= sim.q * ThresholdNum * ThresholdNum
AboveThreshold(sim) ==
    sim.sgn = 1 /\ sim.p * ThresholdDen * ThresholdDen > sim.q * ThresholdNum * ThresholdNum

(***************************************************************************)
(* searchCodebaseLocally                                                   *)
(***************************************************************************)
\* resolvePath: the key of pathMappings whose value is pathId, else pathId
resolvePathNone(pathMappings, pathId) == pathId
resolvePath(pathMappings, pathId) ==
    IF \E path \in DOMAIN pathMappings : pathMappings[path] = pathId
    THEN CHOOSE path \in DOMAIN pathMappings : pathMappings[path] = pathId
    ELSE pathId

\* metadataEntry.p !== undefined: the optimized format, translated back
DecodeMetadata(metadataEntry, pathMappings) ==
    IF "p" \in DOMAIN metadataEntry
    THEN [path |-> resolvePath(pathMappings, metadataEntry.p),
          type |-> metadataEntry.t, name |-> metadataEntry.n,
          code |-> metadataEntry.c]
    ELSE metadataEntry

\* paths.json when it exists, else {}
LoadPathMappings(indexDir) ==
    IF Exists(File(indexDir, "paths.json", 0))
    THEN files[File(indexDir, "paths.json", 0)] ELSE <<>>

VectorExists(indexDir, b) ==
    Exists(File(indexDir, "vec", b)) \/ Exists(File(indexDir, "vectors", b))
MetaExists(indexDir, b) ==
    Exists(File(indexDir, "meta", b)) \/ Exists(File(indexDir, "metadata", b))
\* useOldFormat = pathExists(oldVectorPath)
ActualVectorFile(indexDir, b) ==
    IF Exists(File(indexDir, "vectors", b))
    THEN File(indexDir, "vectors", b) ELSE File(indexDir, "vec", b)
ActualMetadataFile(indexDir, b) ==
    IF Exists(File(indexDir, "vectors", b))
    THEN File(indexDir, "metadata", b) ELSE File(indexDir, "meta", b)

\* the entries of batch b the inner for loop gets through: all of vectorBatch,
\* or, when a file cannot be read or metadataBatch is shorter, those before
\* the TypeError
BatchReadable(indexDir, b) ==
    /\ Exists(ActualVectorFile(indexDir, b))
    /\ Exists(ActualMetadataFile(indexDir, b))
BatchEntries(indexDir, b) ==
    IF ~BatchReadable(indexDir, b) THEN 0
    ELSE Min(Len(files[ActualVectorFile(indexDir, b)]),
             Len(files[ActualMetadataFile(indexDir, b)]))
BatchThrows(indexDir, b) ==
    \/ ~BatchReadable(indexDir, b)
    \/ Len(files[ActualMetadataFile(indexDir, b)]) <
       Len(files[ActualVectorFile(indexDir, b)])

\* entry k (1-based) of batch b as the loop sees it
ReadEntry(indexDir, b, k, pathMappings) ==
    [values |-> files[ActualVectorFile(indexDir, b)][k].values,
     metadata |-> DecodeMetadata(files[ActualMetadataFile(indexDir, b)][k].metadata,
                                 pathMappings)]

\* the while loop: batches 0, 1, ... up to the first one that is missing
\* (batchExists = false) or throws (break)
MaxBatchIndex(indexDir) ==
    Cardinality({f \in DOMAIN files : f[1] = indexDir[1] /\ f[2] = indexDir[2]})
StopBatch(indexDir) ==
    CHOOSE b \in 0..MaxBatchIndex(indexDir) :
        /\ ~(VectorExists(indexDir, b) /\ MetaExists(indexDir, b))
           \/ BatchThrows(indexDir, b)
        /\ \A c \in 0..(b - 1) :
              /\ VectorExists(indexDir, c) /\ MetaExists(indexDir, c)
              /\ ~BatchThrows(indexDir, c)
\* the batches whose entries are scored: those before the stop, and the stop
\* batch itself when it exists and throws part-way
ScannedBatchesNoneOnThrow(indexDir) ==
    LET stop == StopBatch(indexDir)
    IN  IF VectorExists(indexDir, stop) /\ MetaExists(indexDir, stop)
        THEN {} ELSE 0..(stop - 1)
ScannedBatches(indexDir) ==
    LET stop == StopBatch(indexDir)
    IN  IF VectorExists(indexDir, stop) /\ MetaExists(indexDir, stop)
        THEN 0..stop ELSE 0..(stop - 1)

\* allResults after the loop: per batch, the entries above the threshold
BatchResults(indexDir, b, queryEmbedding, pathMappings) ==
    LET scored == [k \in 1..BatchEntries(indexDir, b) |->
                      LET e == ReadEntry(indexDir, b, k, pathMappings)
                      IN  [metadata |-> e.metadata,
                           score |-> calculateCosineSimilarity(queryEmbedding, e.values)]]
        Keep(r) == AboveThreshold(r.score)
    IN  SelectSeq(scored, Keep)

RECURSIVE AllResultsFrom(_, _, _, _)
AllResultsFrom(indexDir, b, queryEmbedding, pathMappings) ==
    IF b \notin ScannedBatches(indexDir) THEN <<>>
    ELSE BatchResults(indexDir, b, queryEmbedding, pathMappings)
         \o AllResultsFrom(indexDir, b + 1, queryEmbedding, pathMappings)

\* allResults.sort((a, b) => b.score - a.score): stable, descending by score
RECURSIVE SortLevels(_, _)
SortLevels(results, levels) ==
    IF levels = {} THEN <<>>
    ELSE LET top == CHOOSE s \in levels : \A t \in levels : ~Greater(t, s)
             IsTop(r) == r.score = top
         IN  SelectSeq(results, IsTop) \o SortLevels(results, levels \ {top})
SortAscending(results) ==
    LET RECURSIVE Up(_)
        Up(levels) ==
            IF levels = {} THEN <<>>
            ELSE LET low == CHOOSE s \in levels : \A t \in levels : ~Greater(s, t)
                     IsLow(r) == r.score = low
                 IN  SelectSeq(results, IsLow) \o Up(levels \ {low})
    IN  Up({results[k].score : k \in 1..Len(results)})
SortByScore(results) ==
    SortLevels(results, {results[k].score : k \in 1..Len(results)})

\* .slice(0, topK), topK >= 0
TopSliceAll(results, topK) == results
TopSlice(results, topK) == SubSeq(results, 1, Min(topK, Len(results)))

QueryVecs == {Vecs[1], Vecs[3], Vecs[5]}

SrIdle == [pc |-> "idle"]

\* searchCodebaseLocally(query, indexName, topK); queryEmbedding is what
\* embeddings.embedQuery(query) returns
Search(indexName, queryEmbedding) ==
    /\ ps.pc \in {"idle", "returned", "threw"}
    /\ sr.pc = "idle"
    /\ LET indexDir == getStorageLocation(indexName)
           found == indexDir # NoDir /\ Exists(File(indexDir, "meta.json", 0))
           sorted == IF ~found THEN <<>>
                     ELSE SortByScore(AllResultsFrom(indexDir, 0, queryEmbedding,
                                                     LoadPathMappings(indexDir)))
       IN  \E topK \in 0..MaxTopK :
              sr' = [pc |-> "returned", indexName |-> indexName, topK |-> topK,
                     indexDir |-> indexDir, queryEmbedding |-> queryEmbedding,
                     results |-> TopSlice(sorted, topK)]
    /\ UNCHANGED <<ex, em, perm, dirs, files, ps, clock, cl, fb>>

\* the index is found, and embeddings.embedQuery(query) rejects
SearchProviderFailsAnywhere(indexName) ==
    /\ ps.pc \in {"idle", "returned", "threw"}
    /\ sr.pc = "idle"
    /\ sr' = [pc |-> "threw", indexName |-> indexName,
              indexDir |-> getStorageLocation(indexName)]
    /\ UNCHANGED <<ex, em, perm, dirs, files, ps, clock, cl, fb>>
SearchProviderFails(indexName) ==
    /\ ps.pc \in {"idle", "returned", "threw"}
    /\ sr.pc = "idle"
    /\ LET indexDir == getStorageLocation(indexName)
       IN  /\ indexDir # NoDir
           /\ Exists(File(indexDir, "meta.json", 0))
           /\ sr' = [pc |-> "threw", indexName |-> indexName, indexDir |-> indexDir]
    /\ UNCHANGED <<ex, em, perm, dirs, files, ps, clock, cl, fb>>

Init ==
    /\ ex = [pc |-> "idle"]
    /\ em = EmIdle
    /\ perm \in [primary : BOOLEAN, alt : BOOLEAN]
    /\ dirs = {}
    /\ files = <<>>
    /\ ps = PsIdle
    /\ sr = SrIdle
    /\ clock = 0
    /\ cl = ClIdle
    /\ fb = FbIdle

Next ==
    \/ \E indexName \in PersistNames, n \in Sizes : PersistStart(indexName, n)
    \/ PersistPrimaryRoot
    \/ PersistAlternateRoot
    \/ PersistNoRoot
    \/ PersistWriteIndexMeta
    \/ PersistWriteVectors
    \/ PersistWriteMetadata
    \/ PersistWritePaths
    \/ PersistWriteMap
    \/ PersistReturnPrimary
    \/ PersistWriteLocation
    \/ PersistLocationIgnored
    \/ PersistWriteFails
    \/ PrimaryBecomesReadOnly
    \/ \E indexName \in IndexNames, q \in QueryVecs : Search(indexName, q)
    \/ \E indexName \in IndexNames : SearchProviderFails(indexName)

Spec == Init /\ [][Next]_vars

(***************************************************************************)
(* Claims about the local vector store                                     *)
(***************************************************************************)
Roots == {"primary", "alt", "legacy"}

\* the vec-<b>.json files that exist in an index directory
BatchFilesIn(indexDir) ==
    {f \in DOMAIN files : f[1] = indexDir[1] /\ f[2] = indexDir[2] /\ f[3] = "vec"}

RECURSIVE EntryCount(_)
EntryCount(fs) ==
    IF fs = {} THEN 0
    ELSE LET f == CHOOSE g \in fs : TRUE
         IN  Len(files[f]) + EntryCount(fs \ {f})

\* every write of the last persist call succeeded, the location file included
PersistCompleted ==
    /\ ps.pc = "returned"
    /\ ps.indexDir[1] # "primary" => WrittenLocationFile(ps.indexName) \in ps.wrote

\* C5: after storeEmbeddingsLocally(chunks, index) completes successfully, on
\* the primary or on the alternate root, getStorageLocation(index) returns the
\* directory that persist wrote to, and the entry counts of the batch files in
\* it sum to the number of chunks persisted.
C5_ResolveFindsPersisted ==
    PersistCompleted =>
        /\ getStorageLocation(ps.indexName) = ps.indexDir
        /\ EntryCount(BatchFilesIn(ps.indexDir)) = Len(ps.embeddedChunks)

\* the least c with c * BATCH_SIZE >= n
CeilBatches(n) ==
    CHOOSE c \in 0..n : c * BATCH_SIZE >= n /\ (c = 0 \/ (c - 1) * BATCH_SIZE < n)

\* C6: persisting n chunks writes exactly ceil(n/500) batch pairs numbered
\* 0..ceil(n/500)-1; every batch but the last holds 500 entries, the last the
\* remainder; batches keep input order; meta.json has chunkCount = n.
C6_BatchLayout ==
    ps.pc = "returned" =>
        LET n  == Len(ps.embeddedChunks)
            tb == CeilBatches(n)
            size(b) == IF b < tb - 1 THEN BATCH_SIZE ELSE n - BATCH_SIZE * (tb - 1)
        IN  /\ {f \in ps.wrote : f[3] = "vec"} =
                   {File(ps.indexDir, "vec", b) : b \in 0..(tb - 1)}
            /\ {f \in ps.wrote : f[3] = "meta"} =
                   {File(ps.indexDir, "meta", b) : b \in 0..(tb - 1)}
            /\ \A b \in 0..(tb - 1) :
                  LET v == files[File(ps.indexDir, "vec", b)]
                      m == files[File(ps.indexDir, "meta", b)]
                  IN  /\ Len(v) = size(b)
                      /\ Len(m) = size(b)
                      /\ \A k \in 1..size(b) :
                            /\ v[k].id = ps.embeddedChunks[BATCH_SIZE * b + k].id
                            /\ m[k].id = ps.embeddedChunks[BATCH_SIZE * b + k].id
            /\ files[File(ps.indexDir, "meta.json", 0)].chunkCount = n

\* 1250 chunks persisted: batches of 500, 500, 250 and chunkCount 1250
C6_Witness ==
    /\ ps.pc = "returned"
    /\ Len(ps.embeddedChunks) = 2 * BATCH_SIZE + BATCH_SIZE \div 2
    /\ Len(files[File(ps.indexDir, "vec", 0)]) = BATCH_SIZE
    /\ Len(files[File(ps.indexDir, "vec", 1)]) = BATCH_SIZE
    /\ Len(files[File(ps.indexDir, "vec", 2)]) = BATCH_SIZE \div 2
    /\ File(ps.indexDir, "meta", 2) \in ps.wrote
    /\ files[File(ps.indexDir, "meta.json", 0)].chunkCount = 2 * BATCH_SIZE + BATCH_SIZE \div 2

\* C7: round trip.  For every chunk persisted by the last call, the entry the
\* search loop reads at the same batch and position has the same vector and,
\* after translating p/t/n/c through paths.json, the same path, type, name
\* and code.
C7_RoundTrip ==
    (ps.pc = "returned" /\ sr.pc = "idle") =>
        \A i \in 1..Len(ps.embeddedChunks) :
            LET b == (i - 1) \div BATCH_SIZE
                k == ((i - 1) % BATCH_SIZE) + 1
                e == ReadEntry(ps.indexDir, b, k, LoadPathMappings(ps.indexDir))
            IN  /\ e.values = ps.embeddedChunks[i].values
                /\ e.metadata = ps.embeddedChunks[i].metadata

\* a chunk of the second batch stored under a short path id, read back with
\* its path, and a search that returned entries of that directory
C7_Witness ==
    /\ ps.pc = "returned"
    /\ sr.pc = "returned"
    /\ sr.indexDir = ps.indexDir
    /\ sr.results # <<>>
    /\ Len(ps.embeddedChunks) > BATCH_SIZE
    /\ files[File(ps.indexDir, "meta", 1)][1].metadata.p
           # ps.embeddedChunks[BATCH_SIZE + 1].metadata.path
    /\ ReadEntry(ps.indexDir, 1, 1, LoadPathMappings(ps.indexDir)).metadata
           = ps.embeddedChunks[BATCH_SIZE + 1].metadata
    /\ \E i \in 1..Len(ps.embeddedChunks) :
           sr.results[1].metadata = ps.embeddedChunks[i].metadata

\* the ids of the entries of vec-<b>.json and of meta-<b>.json
VecIds(indexDir, b) ==
    {files[File(indexDir, "vec", b)][k].id : k \in 1..Len(files[File(indexDir, "vec", b)])}
MetaIds(indexDir, b) ==
    IF Exists(File(indexDir, "meta", b))
    THEN {files[File(indexDir, "meta", b)][k].id :
              k \in 1..Len(files[File(indexDir, "meta", b)])}
    ELSE {}

\* C8: after a successful persist, every id of map.json with value
\* {batch: b, index: k} is the id of entry k of vec-b.json and of meta-b.json,
\* and occurs in no other batch pair of the index directory.
C8_OffsetMapConsistent ==
    (ps.pc = "returned" /\ sr.pc = "idle") =>
        LET map == files[File(ps.indexDir, "map.json", 0)]
            batches == {f[4] : f \in BatchFilesIn(ps.indexDir)}
            MappedTo(b) == {id \in DOMAIN map : map[id].batch = b}
        IN  /\ \A id \in DOMAIN map :
                  /\ Exists(File(ps.indexDir, "vec", map[id].batch))
                  /\ Exists(File(ps.indexDir, "meta", map[id].batch))
                  /\ map[id].index + 1 <= Len(files[File(ps.indexDir, "vec", map[id].batch)])
                  /\ files[File(ps.indexDir, "vec", map[id].batch)][map[id].index + 1].id = id
                  /\ files[File(ps.indexDir, "meta", map[id].batch)][map[id].index + 1].id = id
            /\ \A b \in batches : \A c \in batches \ {b} :
                  /\ MappedTo(b) \cap VecIds(ps.indexDir, c) = {}
                  /\ MappedTo(b) \cap MetaIds(ps.indexDir, c) = {}

\* a second persist of fewer chunks into a directory that still holds the
\* batches of the first, and a map that spans batches
C8_Witness ==
    /\ ps.pc = "returned"
    /\ sr.pc = "idle"
    /\ ps.calls = 2
    /\ Len(ps.embeddedChunks) = BATCH_SIZE
    /\ Exists(File(ps.indexDir, "vec", 2))
    /\ Cardinality(DOMAIN files[File(ps.indexDir, "map.json", 0)]) = BATCH_SIZE
    /\ files[File(ps.indexDir, "map.json", 0)][ps.embeddedChunks[BATCH_SIZE].id]
           = [batch |-> 0, index |-> BATCH_SIZE - 1]

\* C9: searchCodebaseLocally returns at most topK results, and the returned
\* scores are non-increasing from first to last.
C9_TopKSorted ==
    sr.pc = "returned" =>
        /\ Len(sr.results) <= sr.topK
        /\ \A i \in 1..Len(sr.results) : \A j \in i..Len(sr.results) :
              ~Greater(sr.results[j].score, sr.results[i].score)

\* a search cut to topK, whose best result is not the first stored entry and
\* whose results have different scores
C9_Witness ==
    /\ sr.pc = "returned"
    /\ sr.topK >= 2
    /\ Len(sr.results) = sr.topK
    /\ Greater(sr.results[1].score, sr.results[sr.topK].score)
    /\ sr.results[1].metadata # ReadEntry(sr.indexDir, 0, 1, LoadPathMappings(sr.indexDir)).metadata
    /\ Len(AllResultsFrom(sr.indexDir, 0, sr.queryEmbedding,
                          LoadPathMappings(sr.indexDir))) > sr.topK

\* C10: searching an index name with no directory in any candidate root
\* returns the empty list and raises no error.
C10_MissingIndexEmpty ==
    (sr.pc # "idle" /\ \A root \in Roots : <<root, sr.indexName>> \notin dirs) =>
        /\ sr.pc = "returned"
        /\ sr.results = <<>>

\* another index exists, and the name searched for was never persisted
C10_Witness ==
    /\ sr.pc = "returned"
    /\ sr.indexName = "other"
    /\ \A root \in Roots : <<root, "other">> \notin dirs
    /\ <<"primary", "main">> \in dirs
    /\ Exists(File(<<"primary", "main">>, "vec", 0))
    /\ sr.results = <<>>

\* the similarity searchCodebaseLocally computes for entry k of batch b
EntryScore(indexDir, b, k, queryEmbedding) ==
    calculateCosineSimilarity(queryEmbedding,
                              files[ActualVectorFile(indexDir, b)][k].values)

\* r is a scanned entry of the index, scored against the query
IsScoredEntry(r, indexDir, queryEmbedding) ==
    \E b \in ScannedBatches(indexDir) : \E k \in 1..BatchEntries(indexDir, b) :
        /\ EntryScore(indexDir, b, k, queryEmbedding) = r.score
        /\ ReadEntry(indexDir, b, k, LoadPathMappings(indexDir)).metadata = r.metadata

Half == [sgn |-> 1, p |-> ThresholdNum * ThresholdNum, q |-> ThresholdDen * ThresholdDen]

\* C11: every result of a local search has a score strictly greater than 0.5,
\* and is a scanned entry scored against the query: an entry whose similarity
\* is at or below 0.5 is in no result list, also when fewer than topK qualify.
C11_AboveThreshold ==
    sr.pc = "returned" =>
        \A i \in 1..Len(sr.results) :
            /\ Greater(sr.results[i].score, Half)
            /\ IsScoredEntry(sr.results[i], sr.indexDir, sr.queryEmbedding)

\* a search that returns fewer than topK results although the index holds an
\* entry whose similarity to the query is exactly 0.5, and one below it
C11_Witness ==
    /\ sr.pc = "returned"
    /\ sr.results # <<>>
    /\ Len(sr.results) < sr.topK
    /\ \E k \in 1..BatchEntries(sr.indexDir, 0) :
           EntryScore(sr.indexDir, 0, k, sr.queryEmbedding) = Half
    /\ \E k \in 1..BatchEntries(sr.indexDir, 0) :
           EntryScore(sr.indexDir, 0, k, sr.queryEmbedding) = Zero

IsZeroVector(vec) == \A i \in 1..Len(vec) : vec[i] = 0

\* C12: calculateCosineSimilarity returns exactly 0 when either argument is a
\* zero vector, and no call divides by zero (no score is NaN): checked on every
\* pair of query embedding and scanned stored vector, in both argument orders.
C12_ZeroVectorIsZero ==
    sr.pc = "returned" =>
        \A b \in ScannedBatches(sr.indexDir) : \A k \in 1..BatchEntries(sr.indexDir, b) :
            LET vector == files[ActualVectorFile(sr.indexDir, b)][k].values
                ab == calculateCosineSimilarity(sr.queryEmbedding, vector)
                ba == calculateCosineSimilarity(vector, sr.queryEmbedding)
            IN  /\ ab # NaN /\ ba # NaN
                /\ (IsZeroVector(sr.queryEmbedding) \/ IsZeroVector(vector)) =>
                       ab = Zero /\ ba = Zero

\* a search whose query embedding is the zero vector, over an index that holds
\* zero and non-zero vectors
C12_Witness ==
    /\ sr.pc = "returned"
    /\ IsZeroVector(sr.queryEmbedding)
    /\ \E k \in 1..BatchEntries(sr.indexDir, 0) :
           IsZeroVector(files[ActualVectorFile(sr.indexDir, 0)][k].values)
    /\ \E k \in 1..BatchEntries(sr.indexDir, 0) :
           ~IsZeroVector(files[ActualVectorFile(sr.indexDir, 0)][k].values)
    /\ sr.results = <<>>

(***************************************************************************)
(* The index command (cli.js): embedChunks(chunks), then                   *)
(* storeEmbeddings(embeddedChunks, config.indexName); any error ends the   *)
(* process.  em is the command's embedding phase, ps its storing phase.    *)
(***************************************************************************)
SizesI == {1, EmbedBatchSize + 1}

\* `await embedChunks(chunks)` has resolved: the statements after it run
EmbedEnded == em.pc \in {"returned", "threw"}
EmbedSucceeded == em.pc = "returned"

\* await storeEmbeddings(embeddedChunks, config.indexName)
IndexStoreEmbeddings(indexName) ==
    /\ EmbedSucceeded
    /\ ps.pc = "idle"
    /\ ps.calls < MaxCalls
    /\ ps' = [pc |-> "root", calls |-> ps.calls + 1, faults |-> ps.faults,
              indexName |-> indexName, embeddedChunks |-> em.embeddedChunks,
              indexDir |-> NoDir, i |-> 0,
              pathMappings |-> <<>>, pathId |-> 0, indexMappings |-> <<>>,
              wrote |-> {}, now |-> clock + 1]
    /\ clock' = clock + 1
    /\ UNCHANGED <<ex, em, perm, dirs, files, sr, cl, fb>>

\* the command is over: the action returns, or the catch calls process.exit(1)
IndexCommandExit ==
    /\ \/ em.pc = "threw"
       \/ em.pc = "returned" /\ ps.pc \in {"returned", "threw"}
    /\ em' = EmIdle
    /\ ps' = [pc |-> "idle", calls |-> ps.calls, faults |-> ps.faults]
    /\ UNCHANGED <<ex, perm, dirs, files, sr, clock, cl, fb>>

NextIndex ==
    \/ \E n \in SizesI : EmbedStart(n, 0)
    \/ \E r \in 1..MaxResp : EmbedStep(r)
    \/ EmbedProviderFails
    \/ EmbedReturn
    \/ \E indexName \in PersistNames : IndexStoreEmbeddings(indexName)
    \/ PersistPrimaryRoot
    \/ PersistAlternateRoot
    \/ PersistNoRoot
    \/ PersistWriteIndexMeta
    \/ PersistWriteVectors
    \/ PersistWriteMetadata
    \/ PersistWritePaths
    \/ PersistWriteMap
    \/ PersistReturnPrimary
    \/ PersistWriteLocation
    \/ PersistLocationIgnored
    \/ PersistWriteFails
    \/ PrimaryBecomesReadOnly
    \/ IndexCommandExit

SpecIndex == Init /\ [][NextIndex]_vars

\* C13: once an embedding-provider call has failed in an index run, the error
\* has left embedChunks and the run does nothing but end: storeEmbeddings is
\* not called, and no directory or file of the storage is created or changed.
C13_FailedEmbedWritesNothing ==
    [][em.pc = "threw" =>
          /\ files' = files
          /\ dirs' = dirs
          /\ ps' = ps
          /\ em' = EmIdle]_vars

\* the provider fails on the second batch of a run, after an earlier run has
\* stored an index
C13_Witness ==
    /\ em.pc = "threw"
    /\ em.i = EmbedBatchSize
    /\ Len(em.chunks) > EmbedBatchSize
    /\ Exists(File(<<"primary", "main">>, "vec", 0))
    /\ Exists(File(<<"primary", "main">>, "map.json", 0))

\* the files of an index: meta.json, the batch files, paths.json, map.json
IndexFileKinds == {"meta.json", "vec", "meta", "paths.json", "map.json"}

C15_OverwriteNotMerge ==
    (sr.pc = "returned" /\ ps.pc = "returned" /\ sr.indexDir = ps.indexDir) =>
        /\ ScannedBatches(sr.indexDir) = 0..(TotalBatches(Len(ps.embeddedChunks)) - 1)
        /\ \A b \in ScannedBatches(sr.indexDir) :
               files[ActualVectorFile(sr.indexDir, b)]
                   = BatchVectors(BatchChunks(ps.embeddedChunks, b))

\* the meta.json files an earlier persist call completed: map.json, the last
\* file of a call, stands next to them
CompletedIndexMeta ==
    {f \in DOMAIN files : /\ f[3] = "meta.json"
                          /\ Exists(<<f[1], f[2], "map.json", 0>>)}

\* C16: a persist call over an index an earlier call completed leaves the
\* created timestamp of its meta.json as the earlier call set it, and sets
\* the updated timestamp to the time of the call.
C16_CreatedSetOnce ==
    [][\A f \in CompletedIndexMeta :
          files'[f] # files[f] =>
              /\ files'[f].created = files[f].created
              /\ files'[f].updated = ps.now]_vars

\* C17: a persist call of n2 chunks over an index an earlier call completed
\* with chunkCount n1 leaves chunkCount n1 + n2 in its meta.json.
C17_ChunkCountAccumulated ==
    [][\A f \in CompletedIndexMeta :
          files'[f] # files[f] =>
              files'[f].chunkCount = files[f].chunkCount + Len(ps.embeddedChunks)]_vars

\* C18: the stand-in provider is deterministic and of fixed dimension: the
\* vector it returned for a text of the run is the vector any further
\* embedDocuments call on that text returns, whichever way the provider
\* answers, and all vectors returned have one length.
C18_MockDeterministic ==
    \A j \in 1..Len(em.provided) :
        /\ Len(em.provided[j]) = Len(Vecs[1])
        /\ \A r \in 1..MaxResp :
               embedDocuments(<<em.chunks[j].code>>, r) = <<em.provided[j]>>

\* the size above which the branch of splitCode that takes the file does not
\* parse it
SizeCeiling(filePath) ==
    LET ext == toLowerCase(extname(filePath))
    IN  IF ext \in {".js", ".jsx", ".mjs", ".cjs", ".es6"} THEN JsSizeLimit
        ELSE IF ext = ".py" THEN PySizeLimit
        ELSE TsSizeLimit

\* C19: in every language family, a content longer than the size ceiling is
\* not parsed: splitCode returns exactly one chunk, of kind File, named after
\* the file, whose code is the first 5000 characters of the content.
C19_OversizedIsOneFileChunk ==
    (ex.pc = "returned" /\ IsString(ex.content)
        /\ Length(ex.content) > SizeCeiling(ex.filePath)) =>
        /\ ex.stage \in {"large", "other"}
        /\ ex.chunks = << Chunk("File", basename(ex.filePath),
                                Str(ex.filePath, 0, CodeLimit), ex.filePath) >>

\* a Python file of more than 500000 characters in which the indentation
\* extractor would find a class and a function
C19_Witness ==
    /\ ex.pc = "returned"
    /\ toLowerCase(extname(ex.filePath)) = ".py"
    /\ Length(ex.content) > PySizeLimit
    /\ Len(extractPythonChunks(ex.content, ex.filePath).chunks) >= 2
    /\ extractPythonChunks(ex.content, ex.filePath).chunks[1].type = "ClassDeclaration"
    /\ Len(ex.chunks) = 1
    /\ StrLen(ex.chunks[1].code) = CodeLimit

\* the top level of the content is a class declaration followed by a default
\* export without a name, and the file is small enough to be parsed
ClassAndDefaultExport(content) ==
    /\ IsString(content)
    /\ ~SyntaxError(content.lines, "esprima")
    /\ Length(content) <= JsSizeLimit
    /\ Len(Body(content.lines)) = 2
    /\ Body(content.lines)[1].type = "ClassDeclaration"
    /\ Body(content.lines)[2].type = "ExportDefaultDeclaration"
    /\ Body(content.lines)[2].name = ""

\* C20: for a JavaScript or TypeScript file whose top level is a class
\* declaration and a nameless default export, splitCode returns exactly two
\* chunks, the class and the default export named 'anonymous', and the code
\* of each is a piece of the file inside the bounds of the content.
C20_ClassAndDefaultExport ==
    (ex.pc = "returned" /\ ClassAndDefaultExport(ex.content)
        /\ toLowerCase(extname(ex.filePath))
               \in {".ts", ".tsx", ".js", ".jsx", ".mjs", ".cjs", ".es6"}) =>
        /\ Len(ex.chunks) = 2
        /\ ex.chunks[1].type = "ClassDeclaration"
        /\ ex.chunks[1].name = "Cart"
        /\ ex.chunks[2].type = "ExportDefaultDeclaration"
        /\ ex.chunks[2].name = "anonymous"
        /\ \A i \in 1..2 :
               /\ ex.chunks[i].code.src = ex.filePath
               /\ 0 <= ex.chunks[i].code.lo
               /\ ex.chunks[i].code.lo < ex.chunks[i].code.hi
               /\ ex.chunks[i].code.hi <= Length(ex.content)

(***************************************************************************)
(* cli.js: the clean command, "clean -i <name> --confirm"                  *)
(***************************************************************************)
\* cli.js declares GLOBAL_CONFIG_DIR and PROJECT_CONFIG_DIR; the name the
\* clean action reads, CONNOISSEUR_DIR, is never declared, imported or set
\* as a global, so reading it throws a ReferenceError
CleanDirIsBound == FALSE

\* the action of the clean command without --all, confirmation skipped: the
\* try block removes path.join(CONNOISSEUR_DIR, 'vectors', indexName) when it
\* exists; the catch reports any error and the command ends
Clean(indexName) ==
    /\ ps.pc \in {"idle", "returned", "threw"}
    /\ sr.pc = "idle"
    /\ cl.pc = "idle"
    /\ LET vectorPath == <<"primary", indexName>>
       IN  IF ~CleanDirIsBound
           THEN /\ cl' = [pc |-> "failed", indexName |-> indexName]
                /\ UNCHANGED <<dirs, files>>
           ELSE IF vectorPath \in dirs
           THEN \* fs.remove(vectorPath): the directory and everything in it
                /\ dirs' = dirs \ {vectorPath}
                /\ files' = [f \in {g \in DOMAIN files :
                                        <<g[1], g[2]>> # vectorPath} |-> files[f]]
                /\ cl' = [pc |-> "removed", indexName |-> indexName]
           ELSE /\ cl' = [pc |-> "notfound", indexName |-> indexName]
                /\ UNCHANGED <<dirs, files>>
    /\ UNCHANGED <<ex, em, perm, ps, sr, clock, fb>>

NextClean ==
    \/ \E indexName \in PersistNames, n \in {0, FewChunks} : PersistStart(indexName, n)
    \/ PersistPrimaryRoot
    \/ PersistAlternateRoot
    \/ PersistNoRoot
    \/ PersistWriteIndexMeta
    \/ PersistWriteVectors
    \/ PersistWriteMetadata
    \/ PersistWritePaths
    \/ PersistWriteMap
    \/ PersistReturnPrimary
    \/ PersistWriteLocation
    \/ PersistLocationIgnored
    \/ PersistWriteFails
    \/ PrimaryBecomesReadOnly
    \/ \E indexName \in IndexNames : Clean(indexName)
    \/ \E indexName \in IndexNames, q \in QueryVecs : Search(indexName, q)

SpecClean == Init /\ [][NextClean]_vars

\* C21: once "clean -i <name> --confirm" has run, the directory
\* .code-connoisseur/vectors/<name> does not exist, and a search for <name>
\* that follows finds no index.
C21_CleanRemovesIndex ==
    cl.pc # "idle" =>
        /\ <<"primary", cl.indexName>> \notin dirs
        /\ (sr.pc = "returned" /\ sr.indexName = cl.indexName) =>
               sr.indexDir = NoDir

\* C22: meta.json is the last file a persist call writes: whenever meta.json
\* exists in an index directory, paths.json and map.json exist there too and
\* its chunkCount equals the number of entries in the vec-<b>.json files, also
\* while a persist call is in progress and after one failed part-way.
C22_MetaWrittenLast ==
    \A d \in dirs :
        Exists(File(d, "meta.json", 0)) =>
            /\ Exists(File(d, "paths.json", 0))
            /\ Exists(File(d, "map.json", 0))
            /\ files[File(d, "meta.json", 0)].chunkCount = EntryCount(BatchFilesIn(d))

\* C23: getStorageLocation never returns a directory that holds no meta.json:
\* whatever it returns for an index name is a directory with meta.json in it.
C23_ResolvedHasIndexMeta ==
    \A indexName \in IndexNames :
        getStorageLocation(indexName) # NoDir =>
            Exists(File(getStorageLocation(indexName), "meta.json", 0))

\* C24: a structural parse that succeeds and yields zero chunks hands over to
\* the next stage of the ladder: for a TypeScript file that passes the size
\* and control-character gates and parses, when no node of ast.body gives a
\* chunk the result is that of the pattern stage, and the whole file only when
\* the pattern stage yields nothing either.
C24_ZeroChunksHandOver ==
    (/\ ex.pc = "returned"
     /\ ~IsInvalid(ex.content)
     /\ toLowerCase(extname(ex.filePath)) \in {".ts", ".tsx"}
     /\ Length(ex.content) <= TsSizeLimit
     /\ ~HasControlChars(ex.content.lines)
     /\ ~Parse(ex.content, "typescript-estree").threw
     /\ Len(NodeChunks(Parse(ex.content, "typescript-estree").body, TsNodeTypes,
                       ex.content, ex.filePath)) = 0)
    => ex.chunks = OrWholeFile(RegexChunks(ex.content, ex.filePath), "regex",
                               ex.content, ex.filePath).chunks

\* C25: a JavaScript, TypeScript or Python content that holds a NUL character
\* comes back as exactly one chunk of type File.
C25_BinaryIsOneFileChunk ==
    (/\ ex.pc = "returned"
     /\ ~IsInvalid(ex.content)
     /\ toLowerCase(extname(ex.filePath)) \in
            {".js", ".jsx", ".mjs", ".cjs", ".es6", ".ts", ".tsx", ".py"}
     /\ \E k \in 1..Len(ex.content.lines) :
            ex.content.lines[k].kind = "ctrl" /\ ex.content.lines[k].word = "nul")
    => (Len(ex.chunks) = 1 /\ ex.chunks[1].type = "File")

\* C26: within one storeEmbeddingsLocally call the path table is injective and
\* append-only: two distinct paths never hold the same id, and from one step
\* of the call to the next every path already in the table keeps its id.
C26_PathTableInjectiveAppendOnly ==
    /\ [](ps.pc \in {"vec", "metab", "paths", "map", "location"} =>
            \A p, q \in DOMAIN ps.pathMappings :
                ps.pathMappings[p] = ps.pathMappings[q] => p = q)
    /\ [][(/\ ps.pc \in {"vec", "metab", "paths", "map"}
           /\ ps'.pc \in {"vec", "metab", "paths", "map", "location"})
          => \A p \in DOMAIN ps.pathMappings :
                 /\ p \in DOMAIN ps'.pathMappings
                 /\ ps'.pathMappings[p] = ps.pathMappings[p]]_vars

\* a call over several batches has given ids to two paths or more, and a
\* batch after the first has been processed with the table of the first
C26_Witness ==
    /\ ps.pc = "map"
    /\ ps.i >= 2
    /\ Cardinality(DOMAIN ps.pathMappings) >= 2
    /\ \E k \in BATCH_SIZE + 1..Len(ps.embeddedChunks) :
           ps.embeddedChunks[k].metadata.path \in
               {ps.embeddedChunks[m].metadata.path : m \in 1..BATCH_SIZE}

\* the class and def lines of a Python content, in the order their chunks are
\* emitted: the class lines, then the def lines
PyDeclarationLines(lines) ==
    LET IsClass(k) == lines[k].kind = "pyclass"
        IsDef(k)   == lines[k].kind = "pydef"
    IN  SelectSeq([k \in 1..Len(lines) |-> k], IsClass)
        \o SelectSeq([k \in 1..Len(lines) |-> k], IsDef)

\* the lines after declaration line k that end its block: neither blank nor
\* comment nor decorator, indented no deeper than line k
PyBlockStops(lines, k) ==
    {m \in (k + 1)..Len(lines) :
        /\ lines[m].kind \notin {"blank", "comment", "decorator"}
        /\ lines[m].indent <= lines[k].indent}

\* C27: the chunk of a Python class or def ends before the first later line
\* that is neither blank nor a comment nor a decorator and is indented no
\* deeper than the declaration line, also when blank lines precede the
\* declaration: the chunk's code never reaches that line.
C27_PythonBlockEnds ==
    (ex.pc = "returned" /\ ex.stage = "indent") =>
        LET lines == ex.content.lines
            decl  == PyDeclarationLines(lines)
        IN  \A i \in 1..Len(decl) :
                PyBlockStops(lines, decl[i]) # {} =>
                    ex.chunks[i].code.hi <=
                        LineStart(lines, CHOOSE m \in PyBlockStops(lines, decl[i]) :
                                     \A o \in PyBlockStops(lines, decl[i]) : m <= o)

\* the scan from batch 0 gets to batch b: the vectors and metadata files of
\* 0..b all exist, and no batch before b has fewer metadata entries than
\* vectors (the read of such a batch fails part-way)
ScanReaches(indexDir, b) ==
    \A c \in 0..b :
        /\ VectorExists(indexDir, c)
        /\ MetaExists(indexDir, c)
        /\ c < b => Len(files[ActualMetadataFile(indexDir, c)])
                        >= Len(files[ActualVectorFile(indexDir, c)])

\* r is entry k of batch b, scored against the query
IsEntry(r, indexDir, b, k, queryEmbedding) ==
    /\ EntryScore(indexDir, b, k, queryEmbedding) = r.score
    /\ ReadEntry(indexDir, b, k, LoadPathMappings(indexDir)).metadata = r.metadata

\* C28: a local search that found its index returns: every result is an entry
\* of a batch the scan from 0 reaches without passing a missing or failing
\* batch, and what was gathered before a missing or failing batch is returned:
\* an entry above the threshold in a batch the scan reaches is in the results
\* unless topK results of at least its score are.
C28_ScanStopsAtFirstGap ==
    (sr.pc = "returned" /\ sr.indexDir # NoDir
     /\ Exists(File(sr.indexDir, "meta.json", 0))) =>
        /\ \A i \in 1..Len(sr.results) :
               \E b \in 0..MaxBatchIndex(sr.indexDir) :
                   /\ ScanReaches(sr.indexDir, b)
                   /\ \E k \in 1..BatchEntries(sr.indexDir, b) :
                          IsEntry(sr.results[i], sr.indexDir, b, k, sr.queryEmbedding)
        /\ \A b \in 0..MaxBatchIndex(sr.indexDir) :
               ScanReaches(sr.indexDir, b) =>
                   \A k \in 1..BatchEntries(sr.indexDir, b) :
                       LET score == EntryScore(sr.indexDir, b, k, sr.queryEmbedding)
                       IN  Greater(score, Half) =>
                               \/ \E i \in 1..Len(sr.results) :
                                      IsEntry(sr.results[i], sr.indexDir, b, k,
                                              sr.queryEmbedding)
                               \/ /\ Len(sr.results) = sr.topK
                                  /\ \A i \in 1..Len(sr.results) :
                                         ~Greater(score, sr.results[i].score)

\* a search over an index whose batch 0 fails part-way (its metadata file is
\* shorter than its vectors file) returns the entries scored before the failure
C28_Witness ==
    /\ sr.pc = "returned"
    /\ sr.indexDir # NoDir
    /\ Exists(File(sr.indexDir, "meta.json", 0))
    /\ VectorExists(sr.indexDir, 0) /\ MetaExists(sr.indexDir, 0)
    /\ Len(files[ActualMetadataFile(sr.indexDir, 0)])
           < Len(files[ActualVectorFile(sr.indexDir, 0)])
    /\ sr.topK > 0
    /\ sr.results # <<>>

\* C29: extractPythonChunks returns at most one chunk per class or def line of
\* the file: the chunk list is no longer than the list of declarations, and no
\* two of its chunks carry the same type and name (the declarations of a file
\* of the model have distinct names).
C29_OneChunkPerDeclaration ==
    (ex.pc = "returned" /\ ex.stage = "indent") =>
        /\ Len(ex.chunks) <= Len(PyDeclarationLines(ex.content.lines))
        /\ \A i, j \in 1..Len(ex.chunks) :
               (ex.chunks[i].type = ex.chunks[j].type
                /\ ex.chunks[i].name = ex.chunks[j].name) => i = j

(***************************************************************************)
(* FeedbackSystem: feedbackLogs in memory, feedback.json on disk           *)
(***************************************************************************)
MaxLog == 3

\* this.feedbackLogs.push(feedbackEntry)
recordFeedbackPrepend(feedbackLogs, feedbackEntry) == <<feedbackEntry>> \o feedbackLogs
recordFeedback(feedbackLogs, feedbackEntry) == Append(feedbackLogs, feedbackEntry)

\* analyzeFeedback() over feedbackLogs.  The feedback text of an entry is the
\* set of phrases its lower-case form includes; acceptanceRate is kept as the
\* pair accepted / totalReviews
analyzeFeedback(feedbackLogs) ==
    IF Len(feedbackLogs) = 0
    THEN [totalReviews |-> 0, acceptanceRate |-> <<0, 1>>, commonIssues |-> <<>>,
          promptImprovements |-> <<>>]
    ELSE
    LET totalReviews == Len(feedbackLogs)
        Outcome(o) == Cardinality({k \in 1..totalReviews : feedbackLogs[k].outcome = o})
        keywords ==
            << [issue |-> "false_positive",
                phrases |-> {"false positive", "not an issue", "incorrect"}],
               [issue |-> "missed_bug",
                phrases |-> {"missed", "didn't catch", "overlooked"}],
               [issue |-> "unclear",
                phrases |-> {"unclear", "confusing", "hard to understand"}],
               [issue |-> "too_verbose",
                phrases |-> {"too verbose", "too long", "too detailed"}],
               [issue |-> "too_brief",
                phrases |-> {"too brief", "need more detail", "not enough context"}] >>
        Count(w) == Cardinality({k \in 1..totalReviews :
                                    feedbackLogs[k].feedback \cap keywords[w].phrases # {}})
        Found(w) == Count(w) > 0
        found == SelectSeq([w \in 1..Len(keywords) |-> w], Found)
        unsorted == [i \in 1..Len(found) |->
                        [issue |-> keywords[found[i]].issue, count |-> Count(found[i])]]
        RECURSIVE ByCount(_)
        ByCount(c) ==
            IF c = 0 THEN <<>>
            ELSE LET Has(e) == e.count = c
                 IN  SelectSeq(unsorted, Has) \o ByCount(c - 1)
        commonIssues == ByCount(totalReviews)
    IN  [totalReviews |-> totalReviews,
         acceptanceRate |-> <<Outcome("accepted"), totalReviews>>,
         stats |-> [accepted |-> Outcome("accepted"),
                    partiallyHelpful |-> Outcome("partially_helpful"),
                    notHelpful |-> Outcome("not_helpful")],
         commonIssues |-> commonIssues,
         \* one improvement per issue found, in the order of the if statements
         promptImprovements |-> [i \in 1..Len(found) |-> keywords[found[i]].issue]]

\* recordFeedback(reviewId, feedback, outcome): push, then _saveFeedback(),
\* whose writeJsonSync either writes the whole log or throws into its catch
RecordFeedback(reviewId, feedback, outcome, written) ==
    /\ fb.pc = "ready"
    /\ Len(fb.feedbackLogs) < MaxLog
    /\ LET feedbackEntry == [reviewId |-> reviewId, feedback |-> feedback,
                             outcome |-> outcome, timestamp |-> clock + 1]
           logs == recordFeedback(fb.feedbackLogs, feedbackEntry)
       IN  fb' = [pc |-> "ready", feedbackLogs |-> logs,
                  exists |-> fb.exists \/ written,
                  file |-> IF written THEN logs ELSE fb.file,
                  call |-> "recordFeedback", written |-> written,
                  returned |-> feedbackEntry]
    /\ clock' = clock + 1
    /\ UNCHANGED <<ex, em, perm, dirs, files, ps, sr, cl>>

\* analyzeFeedback()
AnalyzeFeedback ==
    /\ fb.pc = "ready"
    /\ fb.call # "analyzeFeedback"
    /\ fb' = [fb EXCEPT !.call = "analyzeFeedback",
                        !.returned = analyzeFeedback(fb.feedbackLogs)]
    /\ UNCHANGED <<ex, em, perm, dirs, files, ps, sr, clock, cl>>

\* after new FeedbackSystem(): feedbackLogs is what _loadFeedback() read from
\* feedback.json (after a migration of the legacy file, the copy it wrote
\* there), [] when the file does not exist
InitFeedback ==
    /\ ex = [pc |-> "idle"]
    /\ em = EmIdle
    /\ perm = [primary |-> TRUE, alt |-> TRUE]
    /\ dirs = {}
    /\ files = <<>>
    /\ ps = [pc |-> "idle", calls |-> 0, faults |-> 0]
    /\ sr = [pc |-> "idle"]
    /\ clock = 0
    /\ cl = ClIdle
    /\ \E exists \in BOOLEAN :
       \E file \in {<<>>, << [reviewId |-> "r0", feedback |-> {"unclear"},
                              outcome |-> "accepted", timestamp |-> 0] >>} :
           /\ ~exists => file = <<>>
           /\ fb = [pc |-> "ready", feedbackLogs |-> file, exists |-> exists,
                    file |-> file, call |-> "constructor", written |-> FALSE,
                    returned |-> <<>>]

NextFeedback ==
    \/ \E reviewId \in {"r1", "r2"},
          feedback \in {{}, {"false positive"}, {"too long", "missed"}},
          outcome \in {"accepted", "partially_helpful", "not_helpful", "skipped"},
          written \in BOOLEAN :
           RecordFeedback(reviewId, feedback, outcome, written)
    \/ AnalyzeFeedback

SpecFeedback == InitFeedback /\ [][NextFeedback]_vars

====
